---------------------------- MODULE ReviewProofs ----------------------------
(***************************************************************************)
(* What was signed and what is scanned, for every directory and every      *)
(* length of its life: the properties of Review that do not depend on      *)
(* which rules there are.                                                  *)
(***************************************************************************)
EXTENDS Review, SequenceTheorems, FiniteSetTheorems, WellFoundedInduction, TLAPS

-----------------------------------------------------------------------------
(* Induction, and the least of a set of numbers. *)

LEMMA ByInduction ==
  ASSUME NEW S, 0 \in S, \A n \in Nat : n \in S => n + 1 \in S
  PROVE  Nat \subseteq S
<1> DEFINE Lower == {ss \in Nat \X Nat : ss[1] < ss[2]}
           Bad == Nat \ S
<1>1. IsWellFoundedOn(Lower, Nat)
  BY NatLessThanWellFounded DEF OpToRel
<1>2. ASSUME Bad # {} PROVE FALSE
  <2>1. PICK x \in Bad : \A y \in Bad : <<y, x>> \notin Lower
    BY <1>1, <1>2, WFMin
  <2>2. x # 0 /\ x - 1 \in Nat
    BY <2>1
  <2>3. x - 1 \notin Bad
    <3>1. x \in Nat /\ <<x - 1, x>> \in Lower
      BY <2>2
    <3> HIDE DEF Lower
    <3> QED BY <2>1, <3>1
  <2> QED BY <2>2, <2>3, <2>1
<1> QED BY <1>2

LEMMA LeastExists ==
  ASSUME NEW S, S \subseteq Nat, S # {}
  PROVE  \E m \in S : \A x \in S : m <= x
<1> DEFINE Lower == {ss \in Nat \X Nat : ss[1] < ss[2]}
<1>1. IsWellFoundedOn(Lower, Nat)
  BY NatLessThanWellFounded DEF OpToRel
<1>2. \E x \in S : \A y \in S : <<y, x>> \notin Lower
  BY <1>1, WFMin
<1>3. \A x, y \in S : <<y, x>> \notin Lower => x <= y
  OBVIOUS
<1> HIDE DEF Lower
<1> QED BY <1>2, <1>3

-----------------------------------------------------------------------------
(* Sequences, place by place, and functions defined place by place.         *)

LEMMA SeqIs ==
  ASSUME NEW S, NEW s \in Seq(S)
  PROVE  /\ Len(s) \in Nat /\ DOMAIN s = 1..Len(s)
         /\ \A i \in 1..Len(s) : s[i] \in S
         /\ s = <<>> <=> Len(s) = 0
OBVIOUS

LEMMA SameSeq ==
  ASSUME NEW S, NEW s \in Seq(S), NEW t \in Seq(S), Len(s) = Len(t),
         \A i \in 1..Len(s) : s[i] = t[i]
  PROVE  s = t
BY SeqEqual

LEMMA PrefixIs ==
  ASSUME NEW S, NEW s \in Seq(S), NEW t \in Seq(S)
  PROVE  IsPrefix(s, t) <=> Len(s) <= Len(t) /\ \A i \in 1..Len(s) : s[i] = t[i]
<1>1. Len(s) \in Nat /\ Len(t) \in Nat
  OBVIOUS
<1>2. CASE Len(s) <= Len(t)
  <2> DEFINE u == SubSeq(s, 1, Len(s))
             v == SubSeq(t, 1, Len(s))
  <2>1. u \in Seq(S) /\ Len(u) = Len(s) /\ \A i \in 1..Len(s) : u[i] = s[i]
    BY <1>1, SubSeqProperties
  <2>2. v \in Seq(S) /\ Len(v) = Len(s) /\ \A i \in 1..Len(s) : v[i] = t[i]
    <3>1. \A i \in 1..Len(s) : t[i] \in S
      BY <1>2, <1>1
    <3>2. \A i \in 1..Len(s) : 1 + i - 1 = i
      BY <1>1
    <3> QED BY <1>1, <3>1, <3>2, SubSeqProperties
  <2> HIDE DEF u, v
  <2>3. u = v <=> \A i \in 1..Len(s) : s[i] = t[i]
    BY <2>1, <2>2, SameSeq
  <2> QED BY <1>2, <2>3 DEF IsPrefix, u, v
<1>3. CASE ~(Len(s) <= Len(t))
  BY <1>3 DEF IsPrefix
<1> QED BY <1>2, <1>3

\* A function whose value at each number follows from the one before is there.
Steps(step, n, D) == \A h \in 1..n : \A s \in D : step[h][s] \in D
Carries(f, n, D, b, step) == f \in [0..n -> D] /\ f[0] = b /\ \A h \in 1..n : f[h] = step[h][f[h - 1]]

LEMMA Carried ==
  ASSUME NEW n \in Nat, NEW D, NEW b \in D, NEW step, Steps(step, n, D)
  PROVE  \E f : Carries(f, n, D, b, step)
<1> DEFINE Upto(f, m) == f \in [0..m -> D] /\ f[0] = b /\ \A h \in 1..m : f[h] = step[h][f[h - 1]]
           P == {m \in Nat : m <= n => \E f : Upto(f, m)}
<1>1. 0 \in P
  <2> DEFINE f == [h \in 0..0 |-> b]
  <2>1. Upto(f, 0)
    OBVIOUS
  <2> HIDE DEF Upto, f
  <2> QED BY <2>1
<1>2. ASSUME NEW m \in Nat, m \in P PROVE m + 1 \in P
  <2> SUFFICES ASSUME m + 1 <= n PROVE \E f : Upto(f, m + 1)
    OBVIOUS
  <2>1. PICK g : Upto(g, m)
    BY <1>2
  <2>2. g[m] \in D /\ step[m + 1][g[m]] \in D
    BY <2>1 DEF Steps
  <2> DEFINE f == [h \in 0..(m + 1) |-> IF h = m + 1 THEN step[m + 1][g[m]] ELSE g[h]]
  <2>3. f \in [0..(m + 1) -> D]
    BY <2>1, <2>2
  <2>4. f[0] = b
    BY <2>1
  <2>5. ASSUME NEW h \in 1..(m + 1) PROVE f[h] = step[h][f[h - 1]]
    <3>1. CASE h = m + 1
      <4>1. f[h] = step[m + 1][g[m]] /\ f[h - 1] = g[m]
        BY <3>1
      <4> QED BY <3>1, <4>1
    <3>2. CASE h # m + 1
      <4>1. h \in 1..m /\ f[h] = g[h] /\ f[h - 1] = g[h - 1]
        BY <3>2
      <4> QED BY <2>1, <4>1
    <3> QED BY <3>1, <3>2
  <2>6. Upto(f, m + 1)
    BY <2>3, <2>4, <2>5
  <2> HIDE DEF Upto, f
  <2> QED BY <2>6
<1>3. n \in P
  <2> HIDE DEF P
  <2> QED BY <1>1, <1>2, ByInduction
<1> QED BY <1>3 DEF Carries

-----------------------------------------------------------------------------
\* What was signed is what a directory that loads was signed as.
SignedOK ==
  \A s \in signed :
    Loads(s.dir) /\ s.leaves = BundleLeaves(LoadBundle(s.dir)) /\ s.oms = BuildStatement(LoadBundle(s.dir))

LEMMA SignedStep == SignedOK /\ [Next]_vars => SignedOK'
<1> SUFFICES ASSUME SignedOK, [Next]_vars PROVE SignedOK'
  OBVIOUS
<1>1. CASE signed' = signed
  BY <1>1 DEF SignedOK
<1>2. ASSUME NEW emit \in BOOLEAN, Sign(emit) PROVE SignedOK'
  <2>1. Loads(dir) /\ signed' = {[dir |-> dir, leaves |-> BundleLeaves(LoadBundle(dir)), oms |-> BuildStatement(LoadBundle(dir))]}
    BY <1>2 DEF Sign, Loaded
  <2> QED BY <2>1 DEF SignedOK
<1>3. signed' = signed \/ \E emit \in BOOLEAN : Sign(emit)
  BY DEF Next, Step, InsertLine, DeleteLine, AddFile, RemoveFile, Edits, vars
<1> QED BY <1>1, <1>2, <1>3

-----------------------------------------------------------------------------
(* A scan is local: what it says of a file comes from the targets of that    *)
(* file alone.                                                              *)

In(some, K) == {x \in some : x.file \in K}
Kept(rules, contexts, targets) ==
  Dedup(Capped(Hits(rules, targets), ContextCaps(contexts, targets)))

LEMMA HitsAre ==
  ASSUME NEW rules, NEW targets, NEW f
  PROVE  f \in Hits(rules, targets) <=>
           \E n \in DOMAIN rules : \E t \in targets : AppliesTo(rules[n], t) /\ f \in Evaluate(rules[n], n, t)
<1>1. ASSUME f \in Hits(rules, targets)
      PROVE  \E n \in DOMAIN rules : \E t \in targets : AppliesTo(rules[n], t) /\ f \in Evaluate(rules[n], n, t)
  BY <1>1 DEF Hits
<1>2. ASSUME NEW n \in DOMAIN rules, NEW t \in targets, AppliesTo(rules[n], t), f \in Evaluate(rules[n], n, t)
      PROVE  f \in Hits(rules, targets)
  <2>1. <<n, t>> \in (DOMAIN rules) \X targets /\ <<n, t>>[1] = n /\ <<n, t>>[2] = t
    OBVIOUS
  <2> QED BY <1>2, <2>1 DEF Hits
<1> QED BY <1>1, <1>2

\* Every finding is one of a target.
LEMMA EvaluateGives ==
  ASSUME NEW r, NEW n, NEW t, NEW f \in Evaluate(r, n, t)
  PROVE  \E m : f = FindingAt(r, n, t, m)
BY DEF Evaluate

\* A ceiling changes the severity and nothing else.
LEMMA CapChanges ==
  ASSUME NEW caps, NEW r, NEW n, NEW t, NEW m
  PROVE  LET f == FindingAt(r, n, t, m)
         IN \E s : ApplyCaps(caps, f) = [f EXCEPT !.severity = s]
<1>1. [FindingAt(r, n, t, m) EXCEPT !.severity = r.severity] = FindingAt(r, n, t, m)
  BY DEF FindingAt
<1> QED BY <1>1 DEF ApplyCaps

LEMMA CapKeepsFile ==
  ASSUME NEW rules, NEW targets, NEW f \in Hits(rules, targets), NEW caps
  PROVE  ApplyCaps(caps, f).file = f.file
<1>0. PICK n, t : f \in Evaluate(rules[n], n, t)
  BY HitsAre
<1>1. PICK m : f = FindingAt(rules[n], n, t, m)
  BY <1>0, EvaluateGives
<1>2. PICK s : ApplyCaps(caps, f) = [f EXCEPT !.severity = s]
  BY <1>1, CapChanges
<1>3. [FindingAt(rules[n], n, t, m) EXCEPT !.severity = s].file = FindingAt(rules[n], n, t, m).file
  BY DEF FindingAt
<1> QED BY <1>1, <1>2, <1>3

LEMMA HitsAreLocal ==
  ASSUME NEW rules, NEW targets, NEW K
  PROVE  In(Hits(rules, targets), K) = Hits(rules, In(targets, K))
<1>1. ASSUME NEW n, NEW t, NEW f \in Evaluate(rules[n], n, t) PROVE f.file = t.file
  <2>1. PICK m : f = FindingAt(rules[n], n, t, m)
    BY EvaluateGives
  <2> QED BY <2>1 DEF FindingAt
<1>2. ASSUME NEW f PROVE f \in In(Hits(rules, targets), K) <=> f \in Hits(rules, In(targets, K))
  <2>1. f \in In(Hits(rules, targets), K) <=>
          \E n \in DOMAIN rules : \E t \in targets :
            AppliesTo(rules[n], t) /\ f \in Evaluate(rules[n], n, t) /\ f.file \in K
    BY HitsAre DEF In
  <2>2. f \in Hits(rules, In(targets, K)) <=>
          \E n \in DOMAIN rules : \E t \in targets :
            t.file \in K /\ AppliesTo(rules[n], t) /\ f \in Evaluate(rules[n], n, t)
    BY HitsAre DEF In
  <2> QED BY <1>1, <2>1, <2>2
<1> QED BY <1>2

LEMMA CapsAreLocal ==
  ASSUME NEW contexts, NEW targets, NEW K
  PROVE  In(ContextCaps(contexts, targets), K) = ContextCaps(contexts, In(targets, K))
<1> DEFINE Cap(c, t) == [max |-> c.max, layers |-> c.layers, file |-> t.file, lines |-> Spans(c, t)]
           Covering(c, t) == AppliesTo(c, t) /\ AppliesToPath(c, t.file)
<1>1. ASSUME NEW some, NEW cap
      PROVE  cap \in ContextCaps(contexts, some) <=> \E c \in contexts : \E t \in some : Covering(c, t) /\ cap = Cap(c, t)
  <2>1. ASSUME cap \in ContextCaps(contexts, some)
        PROVE  \E c \in contexts : \E t \in some : Covering(c, t) /\ cap = Cap(c, t)
    BY <2>1 DEF ContextCaps
  <2>2. ASSUME NEW c \in contexts, NEW t \in some, Covering(c, t), cap = Cap(c, t)
        PROVE  cap \in ContextCaps(contexts, some)
    <3>1. <<c, t>> \in contexts \X some /\ <<c, t>>[1] = c /\ <<c, t>>[2] = t
      OBVIOUS
    <3> QED BY <2>2, <3>1 DEF ContextCaps
  <2> QED BY <2>1, <2>2
<1>2. \A c, t : Cap(c, t).file = t.file
  OBVIOUS
<1> HIDE DEF Cap, Covering
<1>3. ASSUME NEW cap PROVE cap \in In(ContextCaps(contexts, targets), K) <=> cap \in ContextCaps(contexts, In(targets, K))
  <2>1. cap \in In(ContextCaps(contexts, targets), K) <=>
          \E c \in contexts : \E t \in targets : Covering(c, t) /\ cap = Cap(c, t) /\ cap.file \in K
    BY <1>1 DEF In
  <2>2. cap \in ContextCaps(contexts, In(targets, K)) <=>
          \E c \in contexts : \E t \in targets : t.file \in K /\ Covering(c, t) /\ cap = Cap(c, t)
    BY <1>1 DEF In
  <2> QED BY <1>2, <2>1, <2>2
<1> QED BY <1>3

LEMMA CappedIsLocal ==
  ASSUME NEW rules, NEW targets, NEW caps, NEW K
  PROVE  In(Capped(Hits(rules, targets), caps), K) = Capped(In(Hits(rules, targets), K), In(caps, K))
<1>1. ASSUME NEW f, f.file \in K PROVE ApplyCaps(caps, f) = ApplyCaps(In(caps, K), f)
  <2>1. {cap \in caps : /\ cap.file = f.file
                        /\ {0, f.line} \cap cap.lines # {}
                        /\ cap.layers = {} \/ f.layer \in cap.layers} =
        {cap \in In(caps, K) : /\ cap.file = f.file
                               /\ {0, f.line} \cap cap.lines # {}
                               /\ cap.layers = {} \/ f.layer \in cap.layers}
    BY <1>1 DEF In
  <2> QED BY <2>1 DEF ApplyCaps
<1>2. \A f \in Hits(rules, targets) : ApplyCaps(caps, f).file = f.file
  BY CapKeepsFile
<1>3. ASSUME NEW g
      PROVE  g \in In(Capped(Hits(rules, targets), caps), K) <=> g \in Capped(In(Hits(rules, targets), K), In(caps, K))
  <2>1. g \in In(Capped(Hits(rules, targets), caps), K) <=>
          \E f \in Hits(rules, targets) : g = ApplyCaps(caps, f) /\ g.file \in K
    BY DEF In, Capped
  <2>2. g \in Capped(In(Hits(rules, targets), K), In(caps, K)) <=>
          \E f \in Hits(rules, targets) : f.file \in K /\ g = ApplyCaps(In(caps, K), f)
    BY DEF In, Capped
  <2> QED BY <1>1, <1>2, <2>1, <2>2
<1> QED BY <1>3

LEMMA DedupIsLocal ==
  ASSUME NEW found, NEW K
  PROVE  In(Dedup(found), K) = Dedup(In(found, K))
BY DEF In, Dedup, SameKey

LEMMA KeptIsLocal ==
  ASSUME NEW rules, NEW contexts, NEW targets, NEW K
  PROVE  In(Kept(rules, contexts, targets), K) = Kept(rules, contexts, In(targets, K))
<1> DEFINE hits == Hits(rules, targets)
           caps == ContextCaps(contexts, targets)
<1>1. In(Kept(rules, contexts, targets), K) = Dedup(In(Capped(hits, caps), K))
  BY DedupIsLocal DEF Kept
<1>2. In(Capped(hits, caps), K) = Capped(In(hits, K), In(caps, K))
  BY CappedIsLocal
<1>3. In(hits, K) = Hits(rules, In(targets, K)) /\ In(caps, K) = ContextCaps(contexts, In(targets, K))
  BY HitsAreLocal, CapsAreLocal
<1> QED BY <1>1, <1>2, <1>3 DEF Kept
-----------------------------------------------------------------------------
(* What the OMS manifest covers.                                            *)

\* The targets of a bundle, by the files they are from.
FileTarget(w, p) ==
  Target(TargetOf[Role(p, w[p].text)], IF Role(p, w[p].text) = "script" THEN LanguageOf(p) ELSE "",
         p, w[p].text, 0)
Scannable(w) == {p \in Files(w) : Role(p, w[p].text) \in DOMAIN TargetOf}
SkillTargets(skill) ==
  (IF skill.present THEN {Target("manifest", "", SkillMD, skill.front, skill.frontOffset)} ELSE {})
  \cup {Target("body", "", SkillMD, skill.body, skill.bodyOffset)}

LEMMA TargetsAre ==
  ASSUME NEW w
  PROVE  /\ Targets(LoadBundle(w)) = SkillTargets(ParseSkillMD(w[SkillMD].text)) \cup {FileTarget(w, p) : p \in Scannable(w)}
         /\ \A t \in SkillTargets(ParseSkillMD(w[SkillMD].text)) : t.file = SkillMD
         /\ \A p : FileTarget(w, p).file = p
<1>1. /\ LoadBundle(w).skill = ParseSkillMD(w[SkillMD].text)
      /\ DOMAIN LoadBundle(w).role = Files(w)
      /\ \A p \in Files(w) : LoadBundle(w).role[p] = Role(p, w[p].text) /\ LoadBundle(w).files[p] = w[p].text
  BY DEF LoadBundle
<1>2. {p \in DOMAIN LoadBundle(w).role : LoadBundle(w).role[p] \in DOMAIN TargetOf} = Scannable(w)
  BY <1>1 DEF Scannable
<1>3. \A p \in Scannable(w) :
        Target(TargetOf[LoadBundle(w).role[p]], IF LoadBundle(w).role[p] = "script" THEN LanguageOf(p) ELSE "",
               p, LoadBundle(w).files[p], 0) = FileTarget(w, p)
  BY <1>1 DEF Scannable, FileTarget
<1>4. {Target(TargetOf[LoadBundle(w).role[p]], IF LoadBundle(w).role[p] = "script" THEN LanguageOf(p) ELSE "",
              p, LoadBundle(w).files[p], 0) : p \in Scannable(w)} = {FileTarget(w, p) : p \in Scannable(w)}
  BY <1>3
<1>5. Targets(LoadBundle(w)) = SkillTargets(ParseSkillMD(w[SkillMD].text)) \cup {FileTarget(w, p) : p \in Scannable(w)}
  BY <1>1, <1>2, <1>4 DEF Targets, SkillTargets
<1>6. ASSUME NEW skill, NEW t \in SkillTargets(skill) PROVE t.file = SkillMD
  <2>1. \/ t = Target("manifest", "", SkillMD, skill.front, skill.frontOffset)
        \/ t = Target("body", "", SkillMD, skill.body, skill.bodyOffset)
    BY DEF SkillTargets
  <2>2. \A name, lang, text, offset : Target(name, lang, SkillMD, text, offset).file = SkillMD
    BY DEF Target
  <2> QED BY ONLY <2>1, <2>2
<1> QED BY <1>5, <1>6 DEF FileTarget, Target

\* The loader makes the same of the same files.
LEMMA TargetsOfFiles ==
  ASSUME NEW u, NEW v, NEW K, SkillMD \in K,
         Files(u) \cap K = Files(v) \cap K,
         \A p \in Files(u) \cap K : u[p].text = v[p].text,
         u[SkillMD].text = v[SkillMD].text
  PROVE  In(Targets(LoadBundle(u)), K) = In(Targets(LoadBundle(v)), K)
<1>1. ASSUME NEW p PROVE p \in Scannable(u) /\ p \in K <=> p \in Scannable(v) /\ p \in K
  BY DEF Scannable
<1>2. \A p \in Scannable(u) \cap K : FileTarget(u, p) = FileTarget(v, p)
  BY DEF Scannable, FileTarget
<1>3. ASSUME NEW t
      PROVE  t \in In(Targets(LoadBundle(u)), K) <=> t \in In(Targets(LoadBundle(v)), K)
  <2>1. ASSUME NEW w
        PROVE  t \in In(Targets(LoadBundle(w)), K) <=>
                 \/ t \in SkillTargets(ParseSkillMD(w[SkillMD].text)) /\ t.file \in K
                 \/ \E p : p \in Scannable(w) /\ p \in K /\ t = FileTarget(w, p)
    BY TargetsAre DEF In
  <2> QED BY <1>1, <1>2, <2>1
<1> QED BY <1>3

\* What the manifest of a signed directory does not exclude, and a clean check says
\* is still there, the loader finds as it was.
LEMMA CleanIsSame ==
  ASSUME NEW u, NEW v, SkillMD \in Files(u), SkillMD \in Files(v),
         Clean(VerifyManifest(LoadBundle(v), BuildStatement(LoadBundle(u)))),
         NEW K, K = {p \in Files(u) \cup Files(v) : ~Excluded(p, BuildStatement(LoadBundle(u)).ignores)}
  PROVE  /\ SkillMD \in K /\ u[SkillMD].text = v[SkillMD].text
         /\ Files(u) \cap K = Files(v) \cap K
         /\ \A p \in Files(u) \cap K : u[p].text = v[p].text
<1> DEFINE ignores == DefaultIgnorePaths \cup SignatureFileNames
           st == BuildStatement(LoadBundle(u))
<1>1. /\ DOMAIN LoadBundle(u).files = Files(u) /\ DOMAIN LoadBundle(v).files = Files(v)
      /\ \A p \in Files(u) : LoadBundle(u).files[p] = u[p].text
      /\ \A p \in Files(v) : LoadBundle(v).files[p] = v[p].text
  BY DEF LoadBundle
<1>2. /\ st.ignores = ignores
      /\ DOMAIN st.resources = {p \in Files(u) : ~Excluded(p, ignores)}
      /\ \A p \in DOMAIN st.resources : st.resources[p] = u[p].text
  BY <1>1 DEF BuildStatement
<1>3. st.ignores \cup DefaultIgnorePaths \cup SignatureFileNames = ignores
  BY <1>2
<1> HIDE DEF ignores, st
<1>4. /\ \A p \in DOMAIN st.resources \cap Files(v) : v[p].text = st.resources[p]
      /\ DOMAIN st.resources \subseteq Files(v)
      /\ \A p \in Files(v) \ DOMAIN st.resources : Excluded(p, ignores)
  <2>1. /\ {p \in DOMAIN st.resources \cap Files(v) : LoadBundle(v).files[p] # st.resources[p]} = {}
        /\ DOMAIN st.resources \ Files(v) = {}
        /\ {p \in Files(v) \ DOMAIN st.resources : ~Excluded(p, ignores)} = {}
    BY <1>1, <1>3 DEF Clean, VerifyManifest, st
  <2> QED BY <1>1, <2>1
<1>5. ~Excluded(SkillMD, ignores)
  <2> SUFFICES ASSUME NEW ig \in ignores, IsPrefix(ig, SkillMD) PROVE FALSE
    BY DEF Excluded
  <2>1. PICK name : ig = <<name>> /\ name # "SKILL.md"
    BY DEF ignores, DefaultIgnorePaths, SignatureFileNames, Signatures
  <2>2. PICK S : S = {name, "SKILL.md"}
    OBVIOUS
  <2>3. /\ ig \in Seq(S) /\ Len(ig) = 1 /\ ig[1] = name
        /\ SkillMD \in Seq(S) /\ Len(SkillMD) = 1 /\ SkillMD[1] = "SKILL.md"
    BY <2>1, <2>2 DEF SkillMD
  <2>4. \A i \in 1..Len(ig) : ig[i] = SkillMD[i]
    BY <2>3, PrefixIs
  <2> QED BY <2>1, <2>3, <2>4
<1>6. K = {p \in Files(u) \cup Files(v) : ~Excluded(p, ignores)}
  BY <1>2 DEF st
<1>7. SkillMD \in K
  BY <1>5, <1>6
<1>8. \A p \in Files(u) \cap K : p \in Files(v) /\ u[p].text = v[p].text
  BY <1>2, <1>4, <1>6
<1>9. \A p \in Files(v) \cap K : p \in Files(u)
  BY <1>2, <1>4, <1>6
<1> QED BY <1>7, <1>8, <1>9
\* A finding is in a file of the bundle.
LEMMA KeptIsInFiles ==
  ASSUME NEW rules, NEW contexts, NEW w, SkillMD \in Files(w),
         NEW f \in Kept(rules, contexts, Targets(LoadBundle(w)))
  PROVE  f.file \in Files(w)
<1> DEFINE targets == Targets(LoadBundle(w))
           caps == ContextCaps(contexts, targets)
<1>1. PICK g \in Hits(rules, targets) : f = ApplyCaps(caps, g)
  BY DEF Kept, Dedup, Capped
<1>2. f.file = g.file
  BY <1>1, CapKeepsFile
<1>3. PICK n \in DOMAIN rules, t \in targets : g \in Evaluate(rules[n], n, t)
  BY <1>1, HitsAre
<1>4. PICK m : g = FindingAt(rules[n], n, t, m)
  BY <1>3, EvaluateGives
<1>5. g.file = t.file
  BY <1>4 DEF FindingAt
<1>6. t.file \in Files(w)
  BY <1>3, TargetsAre DEF Scannable
<1> QED BY <1>2, <1>5, <1>6
LEMMA UnwaivedFindings ==
  ASSUME NEW b, NEW rules, NEW contexts
  PROVE  Scan(b, rules, contexts, [Policy EXCEPT !.waivers = {}]).findings = Kept(rules, contexts, Targets(b))
<1>1. [Policy EXCEPT !.waivers = {}].waivers = {}
  BY PolicyIsTyped
<1> QED BY <1>1 DEF Scan, Report, Kept

\* While the OMS manifest is clean (pkg/attest/oms, VerifyManifest), a scan finds the same
\* in every file that it does not exclude by path, and the manifest of the skill is the
\* one that was signed.
THEOREM CleanManifestCoversScan == Spec => []OmsCovers
<1>1. ASSUME SignedOK, NEW s \in signed, Loads(dir), Clean(VerifyManifest(Loaded, s.oms)) PROVE
        LET then == LoadBundle(s.dir)
            now == Loaded
            Covered(b) == {f \in Scan(b, Rules, Contexts, [Policy EXCEPT !.waivers = {}]).findings :
                             ~Excluded(f.file, s.oms.ignores)}
        IN /\ Covered(now) = Covered(then)
           /\ now.skill = then.skill
  <2> DEFINE u == s.dir
             scan(w) == Scan(LoadBundle(w), Rules, Contexts, [Policy EXCEPT !.waivers = {}]).findings
  <2>1. Loads(u) /\ s.oms = BuildStatement(LoadBundle(u)) /\ Loaded = LoadBundle(dir)
    BY <1>1 DEF SignedOK, Loaded
  <2>2. SkillMD \in Files(u) /\ SkillMD \in Files(dir)
    BY <1>1, <2>1 DEF Loads
  <2>3. PICK K : K = {p \in Files(u) \cup Files(dir) : ~Excluded(p, s.oms.ignores)}
    OBVIOUS
  <2>4. /\ SkillMD \in K /\ u[SkillMD].text = dir[SkillMD].text
        /\ Files(u) \cap K = Files(dir) \cap K
        /\ \A p \in Files(u) \cap K : u[p].text = dir[p].text
    BY <1>1, <2>1, <2>2, <2>3, CleanIsSame
  <2>5. In(Targets(LoadBundle(dir)), K) = In(Targets(LoadBundle(u)), K)
    BY <2>4, TargetsOfFiles
  <2>6. \A w : scan(w) = Kept(Rules, Contexts, Targets(LoadBundle(w)))
    BY UnwaivedFindings
  <2>7. In(scan(dir), K) = In(scan(u), K)
    BY <2>5, <2>6, KeptIsLocal
  <2>8. ASSUME NEW w, SkillMD \in Files(w), NEW f \in scan(w) PROVE f.file \in Files(w)
    BY <2>6, <2>8, KeptIsInFiles
  <2>9. /\ {f \in scan(dir) : ~Excluded(f.file, s.oms.ignores)} = In(scan(dir), K)
        /\ {f \in scan(u) : ~Excluded(f.file, s.oms.ignores)} = In(scan(u), K)
    BY <2>2, <2>3, <2>8 DEF In
  <2>10. LoadBundle(dir).skill = LoadBundle(u).skill
    BY <2>4 DEF LoadBundle
  <2> QED BY <2>1, <2>7, <2>9, <2>10
<1>2. SignedOK => OmsCovers
  BY <1>1 DEF OmsCovers
<1>3. Init => SignedOK
  BY DEF Init, SignedOK
<1> QED BY <1>2, <1>3, SignedStep, PTL DEF Spec
-----------------------------------------------------------------------------
(* What files are made of: lines, in every state.                           *)

\* What is kept of the first lines of a text, one after another.
Cuts(cut, S, text, K) ==
  /\ cut \in [0..Len(text) -> Seq(S)]
  /\ cut[0] = <<>>
  /\ \A n \in 1..Len(text) : cut[n] = cut[n - 1] \o (IF n \in K THEN <<text[n]>> ELSE <<>>)

LEMMA KeepAtIs ==
  ASSUME NEW S, NEW text \in Seq(S), NEW K
  PROVE  \E cut : Cuts(cut, S, text, K) /\ KeepAt(text, K) = cut[Len(text)]
<1> DEFINE N == Len(text)
           Bit(n) == IF n \in K THEN <<text[n]>> ELSE <<>>
           E(g) == [n \in 0..N |-> IF n = 0 THEN <<>> ELSE g[n - 1] \o (IF n \in K THEN <<text[n]>> ELSE <<>>)]
           step == [n \in 1..N |-> [s \in Seq(S) |-> s \o Bit(n)]]
<1>1. N \in Nat
  OBVIOUS
<1>2. \A n \in 1..N : Bit(n) \in Seq(S)
  <2> TAKE n \in 1..N
  <2>1. text[n] \in S
    OBVIOUS
  <2> QED BY <2>1
<1>3. Steps(step, N, Seq(S))
  <2> SUFFICES ASSUME NEW n \in 1..N, NEW s \in Seq(S) PROVE step[n][s] \in Seq(S)
    BY DEF Steps
  <2>1. s \o Bit(n) \in Seq(S)
    <3> HIDE DEF Bit
    <3> QED BY <1>2, ConcatProperties
  <2> HIDE DEF Bit
  <2> QED BY <2>1
<1>4. PICK f : Carries(f, N, Seq(S), <<>>, step)
  <2>1. <<>> \in Seq(S)
    OBVIOUS
  <2> HIDE DEF step, N
  <2> QED BY <1>1, <1>3, <2>1, Carried
<1>5. /\ f \in [0..N -> Seq(S)] /\ f[0] = <<>>
      /\ \A n \in 1..N : f[n] = f[n - 1] \o Bit(n)
  <2>1. f \in [0..N -> Seq(S)] /\ f[0] = <<>> /\ \A n \in 1..N : f[n] = step[n][f[n - 1]]
    BY ONLY <1>4 DEF Carries
  <2>2. \A n \in 1..N : n - 1 \in 0..N
    BY ONLY <1>1
  <2>3. \A n \in 1..N : f[n - 1] \in Seq(S)
    BY ONLY <2>1, <2>2
  <2>4. \A n \in 1..N, s \in Seq(S) : step[n][s] = s \o Bit(n)
    OBVIOUS
  <2> HIDE DEF step, Bit
  <2> QED BY ONLY <2>1, <2>3, <2>4
<1> HIDE DEF N
<1>6. f = E(f)
  <2>1. f = [n \in 0..N |-> f[n]]
    BY <1>5
  <2>2. \A n \in 0..N : f[n] = IF n = 0 THEN <<>> ELSE f[n - 1] \o Bit(n)
    <3>1. \A n \in 0..N : n = 0 \/ n \in 1..N
      BY <1>1
    <3> HIDE DEF Bit
    <3>2. \A n \in 1..N : n # 0
      BY <1>1
    <3> QED BY <1>5, <3>1, <3>2
  <2>3. [n \in 0..N |-> f[n]] = [n \in 0..N |-> IF n = 0 THEN <<>> ELSE f[n - 1] \o Bit(n)]
    <3> HIDE DEF Bit
    <3> QED BY <2>2
  <2> QED BY <2>1, <2>3
<1>7. PICK cut : cut = CHOOSE g : g = E(g)
  OBVIOUS
<1>8. cut = E(cut)
  <2> HIDE DEF E
  <2> QED BY <1>6, <1>7
<1>9. KeepAt(text, K) = cut[N]
  BY <1>7 DEF KeepAt, N
<1>10. cut[0] = <<>> /\ \A n \in 1..N : cut[n] = cut[n - 1] \o Bit(n)
  BY <1>1, <1>8
<1>11. \A n \in 0..N : cut[n] \in Seq(S)
  <2> DEFINE P == {n \in Nat : n <= N => cut[n] \in Seq(S)}
  <2>1. 0 \in P
    <3>1. cut[0] \in Seq(S)
      BY <1>10
    <3> QED BY <3>1
  <2>2. ASSUME NEW n \in Nat, n \in P PROVE n + 1 \in P
    <3> SUFFICES ASSUME n + 1 <= N PROVE cut[n + 1] \in Seq(S)
      OBVIOUS
    <3>1. n + 1 \in 1..N /\ cut[n] \in Seq(S) /\ (n + 1) - 1 = n
      BY <1>1, <2>2
    <3>2. cut[n + 1] = cut[n] \o Bit(n + 1)
      BY <1>10, <3>1
    <3> HIDE DEF Bit
    <3> QED BY <1>2, <3>1, <3>2, ConcatProperties
  <2> HIDE DEF P
  <2>3. Nat \subseteq P
    BY <2>1, <2>2, ByInduction
  <2> QED BY <1>1, <2>3 DEF P
<1>12. cut \in [0..N -> Seq(S)]
  <2>1. cut = [n \in 0..N |-> cut[n]]
    BY <1>8
  <2> QED BY <1>11, <2>1
<1> QED BY <1>9, <1>10, <1>12 DEF N, Cuts

LEMMA KeepAtIsSeq ==
  ASSUME NEW S, NEW text \in Seq(S), NEW K
  PROVE  KeepAt(text, K) \in Seq(S)
<1>1. Len(text) \in 0..Len(text)
  OBVIOUS
<1>2. PICK cut : Cuts(cut, S, text, K) /\ KeepAt(text, K) = cut[Len(text)]
  BY KeepAtIs
<1> QED BY <1>1, <1>2 DEF Cuts

LEMMA PrefixesAre ==
  ASSUME NEW S, NEW text \in Seq(S), NEW i \in Int, NEW j \in Int, 1 <= i, j <= Len(text)
  PROVE  SubSeq(text, i, j) \in Seq(S)
<1>1. \A k \in i..j : text[k] \in S
  OBVIOUS
<1> QED BY <1>1, SubSeqProperties

\* A sequence of anything is one of what is in it.
LEMMA SeqOfItself ==
  ASSUME NEW S, NEW text \in Seq(S)
  PROVE  IsSeq(text)
<1>1. \A i \in 1..Len(text) : text[i] \in ToSet(text)
  BY DEF ToSet
<1>2. text \in [1..Len(text) -> ToSet(text)]
  BY <1>1
<1> QED BY <1>2 DEF IsSeq

LEMMA FieldsAreLines ==
  ASSUME NEW S, NEW text \in Seq(S)
  PROVE  IsSeq(WriteUSFFields(text))
<1>1. PICK head, T : /\ head = <<Delimiter, Field("content_hash", "quoted"), Field("signature", "quoted")>>
                     /\ T = S \cup {Delimiter, Field("content_hash", "quoted"), Field("signature", "quoted")}
  OBVIOUS
<1>2. PICK a, b, c : head = <<a, b, c>> /\ a \in T /\ b \in T /\ c \in T
  BY <1>1
<1>3. head \in Seq(T)
  BY <1>2
<1>4. text \in Seq(T)
  BY <1>1, SeqMonotonic
<1>5. PICK rest : rest = KeepAt(text, {i \in 2..Len(text) : i \in Block(text) => ~Reserved(text[i])}) /\ rest \in Seq(T)
  BY <1>4, KeepAtIsSeq
<1>6. head \o rest \in Seq(T)
  BY <1>3, <1>5, ConcatProperties
<1>7. WriteUSFFields(text) = head \o rest
  BY ONLY <1>1, <1>5 DEF WriteUSFFields
<1> QED BY <1>6, <1>7, SeqOfItself

TextsOK == IsFiniteSet(DOMAIN dir) /\ \A p \in DOMAIN dir : IsSeq(dir[p].text)

LEMMA InsertIsText ==
  ASSUME NEW text, IsSeq(text), NEW i \in 1..(Len(text) + 1), NEW line
  PROVE  IsSeq(InsertAt(text, i, line))
<1>1. PICK T : T = ToSet(text) \cup {line}
  OBVIOUS
<1>2. text \in Seq(T) /\ Len(text) \in Nat
  BY <1>1, SeqMonotonic DEF IsSeq
<1>3. PICK a, b, c : a = SubSeq(text, 1, i - 1) /\ b = <<line>> /\ c = SubSeq(text, i, Len(text))
  OBVIOUS
<1>4. a \in Seq(T) /\ c \in Seq(T)
  BY <1>2, <1>3, PrefixesAre
<1>5. b \in Seq(T)
  BY <1>1, <1>3
<1>6. a \o b \o c \in Seq(T)
  BY <1>4, <1>5, ConcatProperties
<1>7. InsertAt(text, i, line) = a \o b \o c
  BY ONLY <1>3 DEF InsertAt
<1> QED BY <1>6, <1>7, SeqOfItself

LEMMA RemoveIsText ==
  ASSUME NEW text, IsSeq(text), NEW i \in 1..Len(text)
  PROVE  IsSeq(RemoveAt(text, i))
<1>1. PICK T : T = ToSet(text)
  OBVIOUS
<1>2. text \in Seq(T) /\ Len(text) \in Nat
  BY <1>1 DEF IsSeq
<1>3. PICK a, b : a = SubSeq(text, 1, i - 1) /\ b = SubSeq(text, i + 1, Len(text))
  OBVIOUS
<1>4. a \in Seq(T) /\ b \in Seq(T)
  BY <1>2, <1>3, PrefixesAre
<1>5. a \o b \in Seq(T)
  BY <1>4, ConcatProperties
<1>6. RemoveAt(text, i) = a \o b
  BY ONLY <1>3 DEF RemoveAt
<1> QED BY <1>5, <1>6, SeqOfItself

LEMMA TextsAreWritten ==
  ASSUME NEW emit \in BOOLEAN, TextsOK, Sign(emit)
  PROVE  TextsOK'
<1> DEFINE envelopes == [p \in SignatureFileNames |-> File(<<>>)]
           skill == IF emit /\ HasBlock(Text)
                    THEN [p \in {SkillMD} |-> File(WriteUSFFields(Text))] ELSE <<>>
<1>1. dir' = Over(skill, Over(envelopes, dir))
  BY DEF Sign
<1>2. SkillMD \in DOMAIN dir
  BY DEF Sign, Loads, Files, Walked
<1>3. Text \in Seq(ToSet(Text))
  BY <1>2 DEF TextsOK, Text, IsSeq
<1>4. IsSeq(WriteUSFFields(Text)) /\ IsSeq(<<>>)
  <2>1. <<>> \in Seq({})
    OBVIOUS
  <2> QED BY <1>3, <2>1, FieldsAreLines, SeqOfItself
<1>5. \A text : File(text).text = text
  BY DEF File
<1>6. IsFiniteSet(DOMAIN skill) /\ \A p \in DOMAIN skill : IsSeq(skill[p].text)
  <2>1. CASE emit /\ HasBlock(Text)
    BY <1>4, <1>5, <2>1, FS_Singleton
  <2>2. CASE ~(emit /\ HasBlock(Text))
    BY <2>2, FS_EmptySet
  <2> QED BY <2>1, <2>2
<1>7. IsFiniteSet(DOMAIN envelopes) /\ \A p \in DOMAIN envelopes : IsSeq(envelopes[p].text)
  <2>1. IsFiniteSet(SignatureFileNames)
    <3>1. SignatureFileNames = {<<"SKILL.md.skillsig">>} \cup {<<"skill.oms.sig">>}
      BY DEF SignatureFileNames, Signatures
    <3> QED BY <3>1, FS_Singleton, FS_Union
  <2> QED BY <1>4, <1>5, <2>1
<1> HIDE DEF skill, envelopes
<1>8. PICK low, new : low = Over(envelopes, dir) /\ new = Over(skill, low) /\ dir' = new
  BY <1>1
<1>11. /\ DOMAIN low = DOMAIN envelopes \cup DOMAIN dir
       /\ \A p \in DOMAIN low : low[p] = IF p \in DOMAIN envelopes THEN envelopes[p] ELSE dir[p]
  BY ONLY <1>8 DEF Over
<1>12. /\ DOMAIN new = DOMAIN skill \cup DOMAIN low
       /\ \A p \in DOMAIN new : new[p] = IF p \in DOMAIN skill THEN skill[p] ELSE low[p]
  BY ONLY <1>8 DEF Over
<1>9. IsFiniteSet(DOMAIN dir')
  <2>1. IsFiniteSet(DOMAIN low)
    BY <1>7, <1>11, FS_Union DEF TextsOK
  <2>2. IsFiniteSet(DOMAIN new)
    BY <1>6, <1>12, <2>1, FS_Union
  <2> QED BY <1>8, <2>2
<1>10. \A p \in DOMAIN dir' : IsSeq(dir'[p].text)
  <2>1. \A p \in DOMAIN low : IsSeq(low[p].text)
    BY <1>7, <1>11 DEF TextsOK
  <2>2. \A p \in DOMAIN new : IsSeq(new[p].text)
    BY <1>6, <1>12, <2>1
  <2> QED BY <1>8, <2>2
<1> QED BY <1>9, <1>10 DEF TextsOK, IsSeq

LEMMA TextsStep == TextsOK /\ [Next]_vars => TextsOK'
<1> SUFFICES ASSUME TextsOK, [Next]_vars PROVE TextsOK'
  OBVIOUS
<1>0. \A text : File(text).text = text
  BY DEF File
<1>1. ASSUME NEW emit \in BOOLEAN, Sign(emit) PROVE TextsOK'
  BY <1>1, TextsAreWritten
<1>2. ASSUME NEW p \in Files(dir), NEW text, IsSeq(text), Rewrite(p, text) PROVE TextsOK'
  <2>1. DOMAIN dir' = DOMAIN dir /\ \A q \in DOMAIN dir : dir'[q].text = IF q = p THEN text ELSE dir[q].text
    BY <1>0, <1>2 DEF Rewrite
  <2> QED BY <1>2, <2>1 DEF TextsOK, IsSeq
<1>3. ASSUME NEW p \in Files(dir), NEW i \in 1..(Len(dir[p].text) + 1), NEW line, InsertLine(p, i, line)
      PROVE  TextsOK'
  <2>1. IsSeq(dir[p].text)
    BY DEF TextsOK, Files, Walked
  <2> QED BY <1>2, <1>3, <2>1, InsertIsText DEF InsertLine
<1>4. ASSUME NEW p \in Files(dir), NEW i \in DOMAIN dir[p].text, DeleteLine(p, i) PROVE TextsOK'
  <2>1. IsSeq(dir[p].text)
    BY DEF TextsOK, Files, Walked
  <2>2. i \in 1..Len(dir[p].text)
    BY <2>1 DEF IsSeq
  <2> QED BY <1>2, <1>4, <2>1, <2>2, RemoveIsText DEF DeleteLine
<1>5. ASSUME NEW a \in Additions, AddFile(a) PROVE TextsOK'
  <2>1. PICK one, new : one = [p \in {a.path} |-> a.entry] /\ new = Over(one, dir) /\ dir' = new
    BY <1>5 DEF AddFile
  <2>2. /\ DOMAIN new = {a.path} \cup DOMAIN dir
        /\ \A p \in DOMAIN new : new[p] = IF p = a.path THEN a.entry ELSE dir[p]
    BY ONLY <2>1 DEF Over
  <2>3. IsFiniteSet(DOMAIN new)
    <3>1. IsFiniteSet({a.path}) /\ IsFiniteSet(DOMAIN dir) /\ DOMAIN new = {a.path} \cup DOMAIN dir
      BY <2>2, FS_Singleton DEF TextsOK
    <3> QED BY ONLY <3>1, FS_Union
  <2>4. \A p \in DOMAIN new : IsSeq(new[p].text)
    BY <2>2, TextsAreLines DEF TextsOK
  <2> QED BY <2>1, <2>3, <2>4 DEF TextsOK, IsSeq
<1>6. ASSUME NEW p \in DOMAIN dir, RemoveFile(p) PROVE TextsOK'
  <2>1. DOMAIN dir' = DOMAIN dir \ {p} /\ \A q \in DOMAIN dir' : dir'[q] = dir[q]
    BY <1>6 DEF RemoveFile
  <2>2. IsFiniteSet(DOMAIN dir')
    BY <2>1, FS_Difference DEF TextsOK
  <2> QED BY <2>1, <2>2 DEF TextsOK, IsSeq
<1>7. CASE vars' = vars
  BY <1>7 DEF vars, TextsOK, IsSeq
<1> QED BY <1>1, <1>3, <1>4, <1>5, <1>6, <1>7 DEF Next, Step

LEMMA TextsInit == Init => TextsOK
BY TextsAreLines DEF Init, TextsOK, IsSeq

-----------------------------------------------------------------------------
(* What the loader makes of SKILL.md, line by line.                         *)

Split(sk, S, text, end) ==
  /\ end \in 3..Len(text) /\ sk.present = TRUE
  /\ sk.front \in Seq(S) /\ Len(sk.front) = end - 2 /\ sk.frontOffset = 1
  /\ \A i \in 1..(end - 2) : sk.front[i] = text[i + 1]
  /\ sk.body \in Seq(S) /\ Len(sk.body) = Len(text) - end /\ sk.bodyOffset = end
  /\ \A i \in 1..(Len(text) - end) : sk.body[i] = text[i + end]
Undivided(sk, text) ==
  sk = [present |-> FALSE, front |-> <<>>, frontOffset |-> 0, body |-> text, bodyOffset |-> 0]

LEMMA ClosingIs ==
  ASSUME NEW S, NEW text \in Seq(S), NEW first \in Nat, first >= 1, Closing(text, first) # {}
  PROVE  /\ Min(Closing(text, first)) \in first..Len(text) /\ text[Min(Closing(text, first))] = Delimiter
         /\ \A i \in first..(Min(Closing(text, first)) - 1) : text[i] # Delimiter
         /\ text[1] = Delimiter
<1>1. /\ Closing(text, first) = {i \in first..Len(text) : text[i] = Delimiter} /\ text[1] = Delimiter
  BY DEF Closing
<1>2. Len(text) \in Nat
  OBVIOUS
<1>3. PICK C : C = Closing(text, first)
  OBVIOUS
<1>4. C \subseteq Nat /\ C # {} /\ C = {i \in first..Len(text) : text[i] = Delimiter}
  BY <1>1, <1>2, <1>3
<1>5. \E m \in C : \A x \in C : m <= x
  BY <1>4, LeastExists
<1>6. Min(C) \in C /\ \A x \in C : Min(C) <= x
  BY <1>5 DEF Min
<1>7. PICK m : m = Min(C)
  OBVIOUS
<1>8. m \in first..Len(text) /\ text[m] = Delimiter /\ \A i \in first..(m - 1) : text[i] # Delimiter
  <2>1. m \in C /\ \A x \in C : m <= x
    BY ONLY <1>6, <1>7
  <2>2. m \in first..Len(text) /\ text[m] = Delimiter
    BY <1>4, <2>1
  <2>3. ASSUME NEW i \in first..(m - 1), text[i] = Delimiter PROVE FALSE
    <3>1. i \in first..Len(text)
      BY <1>2, <2>2
    <3>2. i \in C
      BY <1>4, <2>3, <3>1
    <3> QED BY <2>1, <2>2, <3>2
  <2> QED BY <2>2, <2>3
<1> QED BY <1>1, <1>3, <1>7, <1>8

LEMMA ParsedIs ==
  ASSUME NEW S, NEW text \in Seq(S)
  PROVE  LET sk == ParseSkillMD(text)
         IN Undivided(sk, text) \/ \E end \in 3..Len(text) : Split(sk, S, text, end)
<1>1. CASE Closing(text, 3) = {}
  BY <1>1 DEF ParseSkillMD, Undivided
<1>2. CASE Closing(text, 3) # {}
  <2>1. PICK end : end = Min(Closing(text, 3))
    OBVIOUS
  <2>2. end \in 3..Len(text)
    BY <1>2, <2>1, ClosingIs
  <2>3. PICK front, body : front = SubSeq(text, 2, end - 1) /\ body = SubSeq(text, end + 1, Len(text))
    OBVIOUS
  <2>4. Len(text) \in Nat /\ \A i \in 1..Len(text) : text[i] \in S
    OBVIOUS
  <2>5. /\ front \in Seq(S) /\ Len(front) = end - 2
        /\ \A i \in 1..(end - 2) : front[i] = text[i + 1]
    <3>1. \A i \in 2..(end - 1) : text[i] \in S
      BY <2>2, <2>4
    <3>2. /\ front \in Seq(S) /\ Len(front) = (IF 2 <= end - 1 THEN (end - 1) - 2 + 1 ELSE 0)
          /\ \A i \in 1..((end - 1) - 2 + 1) : front[i] = text[2 + i - 1]
      BY <2>2, <2>3, <2>4, <3>1, SubSeqProperties
    <3>3. (end - 1) - 2 + 1 = end - 2 /\ 2 <= end - 1 /\ \A i \in 1..(end - 2) : 2 + i - 1 = i + 1
      BY <2>2
    <3> QED BY <3>2, <3>3
  <2>6. /\ body \in Seq(S) /\ Len(body) = Len(text) - end
        /\ \A i \in 1..(Len(text) - end) : body[i] = text[i + end]
    <3>1. \A i \in (end + 1)..Len(text) : text[i] \in S
      BY <2>2, <2>4
    <3>2. /\ body \in Seq(S) /\ Len(body) = (IF end + 1 <= Len(text) THEN Len(text) - (end + 1) + 1 ELSE 0)
          /\ \A i \in 1..(Len(text) - (end + 1) + 1) : body[i] = text[(end + 1) + i - 1]
      BY <2>2, <2>3, <2>4, <3>1, SubSeqProperties
    <3>3. /\ Len(text) - (end + 1) + 1 = Len(text) - end
          /\ (IF end + 1 <= Len(text) THEN Len(text) - (end + 1) + 1 ELSE 0) = Len(text) - end
      BY <2>2, <2>4
    <3>4. \A i \in 1..(Len(text) - end) : (end + 1) + i - 1 = i + end
      BY <2>2, <2>4
    <3> QED BY <3>2, <3>3, <3>4
  <2>7. ParseSkillMD(text) =
          [present |-> TRUE, front |-> front, frontOffset |-> 1, body |-> body, bodyOffset |-> end]
    BY <1>2, <2>1, <2>3 DEF ParseSkillMD
  <2>8. PICK sk : sk = ParseSkillMD(text)
    OBVIOUS
  <2>9. /\ sk.present = TRUE /\ sk.front = front /\ sk.frontOffset = 1 /\ sk.body = body /\ sk.bodyOffset = end
    BY <2>7, <2>8
  <2>10. Split(sk, S, text, end)
    BY <2>2, <2>5, <2>6, <2>9 DEF Split
  <2> QED BY <2>2, <2>8, <2>10
<1> QED BY <1>1, <1>2

-----------------------------------------------------------------------------
(* Every line is scanned once.                                              *)

Seeing(targets, p, i) == {t \in targets : t.file = p /\ i - t.offset \in DOMAIN t.text}
SeenOnce(targets, p, i, line) ==
  \E t \in Seeing(targets, p, i) : Seeing(targets, p, i) = {t} /\ t.text[i - t.offset] = line

LEMMA SkillIsScanned ==
  ASSUME NEW S, NEW text \in Seq(S), NEW i \in 1..Len(text)
  PROVE  LET sk == ParseSkillMD(text)
         IN IF sk.present /\ i \in {1, sk.bodyOffset} THEN Seeing(SkillTargets(sk), SkillMD, i) = {}
            ELSE SeenOnce(SkillTargets(sk), SkillMD, i, text[i])
<1>1. PICK sk : sk = ParseSkillMD(text)
  OBVIOUS
<1>2. PICK m, b : m = Target("manifest", "", SkillMD, sk.front, sk.frontOffset) /\ b = Target("body", "", SkillMD, sk.body, sk.bodyOffset)
  OBVIOUS
<1>3. /\ m.file = SkillMD /\ m.text = sk.front /\ m.offset = sk.frontOffset
      /\ b.file = SkillMD /\ b.text = sk.body /\ b.offset = sk.bodyOffset
  BY <1>2 DEF Target
<1>4. SkillTargets(sk) = IF sk.present THEN {m, b} ELSE {b}
  BY <1>2 DEF SkillTargets
<1>5. Len(text) \in Nat /\ DOMAIN text = 1..Len(text)
  OBVIOUS
<1>6. CASE Undivided(sk, text)
  <2>1. ~sk.present /\ b.text = text /\ b.offset = 0
    BY <1>3, <1>6 DEF Undivided
  <2>2. SkillTargets(sk) = {b}
    BY <1>4, <2>1
  <2>3. i - 0 = i
    BY <1>5
  <2>4. Seeing(SkillTargets(sk), SkillMD, i) = {b}
    BY <1>3, <1>5, <2>1, <2>2, <2>3 DEF Seeing
  <2>5. SeenOnce(SkillTargets(sk), SkillMD, i, text[i])
    BY <2>1, <2>3, <2>4 DEF SeenOnce
  <2> QED BY <1>1, <2>1, <2>5
<1>7. ASSUME NEW end \in 3..Len(text), Split(sk, S, text, end)
      PROVE  IF sk.present /\ i \in {1, sk.bodyOffset} THEN Seeing(SkillTargets(sk), SkillMD, i) = {}
             ELSE SeenOnce(SkillTargets(sk), SkillMD, i, text[i])
  <2>1. SkillTargets(sk) = {m, b} /\ sk.present /\ sk.bodyOffset = end
    BY <1>4, <1>7 DEF Split
  <2>2. /\ m.offset = 1 /\ DOMAIN m.text = 1..(end - 2) /\ \A j \in 1..(end - 2) : m.text[j] = text[j + 1]
        /\ b.offset = end /\ DOMAIN b.text = 1..(Len(text) - end)
        /\ \A j \in 1..(Len(text) - end) : b.text[j] = text[j + end]
    BY <1>3, <1>7 DEF Split
  <2>3. i - 1 \in 1..(end - 2) <=> i \in 2..(end - 1)
    OBVIOUS
  <2>4. i - end \in 1..(Len(text) - end) <=> i \in (end + 1)..Len(text)
    BY <1>5
  <2>5. \A t : t \in Seeing(SkillTargets(sk), SkillMD, i) <=>
                 \/ t = m /\ i \in 2..(end - 1)
                 \/ t = b /\ i \in (end + 1)..Len(text)
    BY <1>3, <2>1, <2>2, <2>3, <2>4 DEF Seeing
  <2>6. CASE i \in {1, end}
    <3>1. i \notin 2..(end - 1) /\ i \notin (end + 1)..Len(text)
      BY <1>5, <2>6
    <3>2. Seeing(SkillTargets(sk), SkillMD, i) = {}
      BY <2>5, <3>1
    <3> QED BY <2>1, <2>6, <3>2
  <2>7. CASE i \in 2..(end - 1)
    <3>1. Seeing(SkillTargets(sk), SkillMD, i) = {m}
      BY <2>5, <2>7
    <3>2. m.text[i - 1] = text[i]
      <4>1. i - 1 \in 1..(end - 2) /\ (i - 1) + 1 = i
        BY <2>7
      <4> QED BY <2>2, <4>1
    <3>3. SeenOnce(SkillTargets(sk), SkillMD, i, text[i])
      BY <2>2, <3>1, <3>2 DEF SeenOnce
    <3> QED BY <2>1, <2>7, <3>3
  <2>8. CASE i \in (end + 1)..Len(text)
    <3>1. Seeing(SkillTargets(sk), SkillMD, i) = {b}
      BY <2>5, <2>8
    <3>2. b.text[i - end] = text[i]
      <4>1. i - end \in 1..(Len(text) - end) /\ (i - end) + end = i
        BY <2>8, <1>5
      <4> QED BY <2>2, <4>1
    <3>3. SeenOnce(SkillTargets(sk), SkillMD, i, text[i])
      BY <2>2, <3>1, <3>2 DEF SeenOnce
    <3> QED BY <2>1, <2>8, <3>3
  <2>9. i \in {1, end} \/ i \in 2..(end - 1) \/ i \in (end + 1)..Len(text)
    BY <1>5
  <2> QED BY <2>6, <2>7, <2>8, <2>9
<1>8. Undivided(sk, text) \/ \E end \in 3..Len(text) : Split(sk, S, text, end)
  BY <1>1, ParsedIs
<1> QED BY <1>1, <1>6, <1>7, <1>8

LEMMA RolesAre ==
  ASSUME NEW p, NEW text
  PROVE  /\ DOMAIN TargetOf = {"script", "config", "doc"}
         /\ p = SkillMD => Role(p, text) = "manifest"
         /\ p # SkillMD => Role(p, text) \in {"script", "config", "doc", "asset"}
BY DEF TargetOf, Role

\* Every line of a bundle that is no asset is scanned once, under its own number, the
\* delimiters of the front matter apart (pkg/skill parseSkillMD, pkg/rules targets).
THEOREM NoLineEscapesTheScan == Spec => []EveryLineIsScanned
<1>1. ASSUME TextsOK, Loads(dir), NEW p \in DOMAIN Loaded.files, NEW i \in DOMAIN Loaded.files[p]
      PROVE  LET b == Loaded
                 seen == {t \in Targets(b) : t.file = p /\ i - t.offset \in DOMAIN t.text}
                 delimits == p = SkillMD /\ b.skill.present /\ i \in {1, b.skill.bodyOffset}
             IN IF b.role[p] = "asset" \/ delimits THEN seen = {}
                ELSE \E t \in seen : seen = {t} /\ t.text[i - t.offset] = dir[p].text[i]
  <2>1. /\ DOMAIN Loaded.files = Files(dir) /\ Loaded.files[p] = dir[p].text
        /\ Loaded.role[p] = Role(p, dir[p].text) /\ Loaded.skill = ParseSkillMD(dir[SkillMD].text)
    BY DEF Loaded, LoadBundle
  <2>2. PICK text : text = dir[p].text
    OBVIOUS
  <2>3. PICK S : text \in Seq(S)
    BY <1>1, <2>1, <2>2 DEF TextsOK, Files, Walked, IsSeq
  <2>4. i \in 1..Len(text) /\ DOMAIN text = 1..Len(text) /\ Len(text) \in Nat
    BY <2>1, <2>2, <2>3
  <2>5. PICK T : T = Targets(LoadBundle(dir))
    OBVIOUS
  <2>6. PICK W : W = SkillTargets(ParseSkillMD(dir[SkillMD].text))
    OBVIOUS
  <2>7. /\ T = W \cup {FileTarget(dir, q) : q \in Scannable(dir)}
        /\ \A t \in W : t.file = SkillMD
        /\ \A q : FileTarget(dir, q).file = q
    BY ONLY <2>5, <2>6, TargetsAre
  <2>8. CASE p = SkillMD
    <3>1. SkillMD \notin Scannable(dir) /\ Loaded.role[p] # "asset"
      BY <2>1, <2>8, RolesAre DEF Scannable
    <3>2. \A t \in T : t.file = SkillMD <=> t \in W
      BY <2>7, <3>1
    <3>3. Seeing(T, SkillMD, i) = Seeing(W, SkillMD, i)
      BY <2>7, <3>2 DEF Seeing
    <3>4. IF Loaded.skill.present /\ i \in {1, Loaded.skill.bodyOffset} THEN Seeing(W, SkillMD, i) = {}
          ELSE SeenOnce(W, SkillMD, i, text[i])
      BY <2>1, <2>2, <2>3, <2>4, <2>6, <2>8, SkillIsScanned
    <3> QED BY <2>2, <2>5, <2>8, <3>1, <3>3, <3>4 DEF Loaded, Seeing, SeenOnce
  <2>9. CASE p # SkillMD
    <3> DEFINE t == FileTarget(dir, p)
    <3>1. t.file = p /\ t.offset = 0 /\ t.text = text
      BY <2>2 DEF FileTarget, Target
    <3>2. p \in Scannable(dir) <=> Loaded.role[p] # "asset"
      BY <2>1, <2>9, RolesAre DEF Scannable
    <3> HIDE DEF t
    <3>3. \A u \in T : u.file = p <=> u = t /\ p \in Scannable(dir)
      BY <2>7, <2>9 DEF t
    <3>4. p \in Scannable(dir) => t \in T
      BY <2>7 DEF t
    <3>5. i - t.offset = i
      BY <2>4, <3>1
    <3>6. Seeing(T, p, i) = IF Loaded.role[p] # "asset" THEN {t} ELSE {}
      BY <2>4, <3>1, <3>2, <3>3, <3>4, <3>5 DEF Seeing
    <3> QED BY <2>2, <2>5, <2>9, <3>1, <3>5, <3>6 DEF Loaded, Seeing
  <2> QED BY <2>8, <2>9
<1>2. TextsOK => EveryLineIsScanned
  BY <1>1 DEF EveryLineIsScanned
<1> QED BY <1>2, TextsInit, TextsStep, PTL DEF Spec

-----------------------------------------------------------------------------
(* Context rules lower what is found and do nothing else.                   *)

Uncap(f) == [f EXCEPT !.severity = f.original]

LEMMA CapIsUndone ==
  ASSUME NEW rules, NEW targets, NEW h \in Hits(rules, targets), NEW caps
  PROVE  LET f == ApplyCaps(caps, h)
         IN /\ Uncap(f) = h /\ h.severity = h.original
            /\ f.file = h.file /\ f.line = h.line /\ f.rule = h.rule /\ f.nth = h.nth
            /\ f.confidence = h.confidence /\ f.original = h.original
<1>1. PICK n, t : h \in Evaluate(rules[n], n, t)
  BY HitsAre
<1>2. PICK m : h = FindingAt(rules[n], n, t, m)
  BY <1>1, EvaluateGives
<1>3. PICK s : ApplyCaps(caps, h) = [h EXCEPT !.severity = s]
  BY <1>2, CapChanges
<1>4. PICK f : f = ApplyCaps(caps, h)
  OBVIOUS
<1>5. f = [rule |-> rules[n].id, nth |-> n, severity |-> s, original |-> rules[n].severity,
           layer |-> rules[n].layer, file |-> t.file, line |-> m.line + t.offset, excerpt |-> m.excerpt,
           confidence |-> Confidence(t, m)]
  BY <1>2, <1>3, <1>4 DEF FindingAt
<1>6. Uncap(f) = h
  BY <1>2, <1>5 DEF FindingAt, Uncap
<1>7. /\ h.severity = h.original
      /\ f.file = h.file /\ f.line = h.line /\ f.rule = h.rule /\ f.nth = h.nth
      /\ f.confidence = h.confidence /\ f.original = h.original
  BY <1>2, <1>5 DEF FindingAt
<1> QED BY <1>4, <1>6, <1>7

\* Capping and folding of duplicates can be done in any order.
LEMMA CapsAfterDedup ==
  ASSUME NEW rules, NEW targets, NEW caps
  PROVE  Dedup(Capped(Hits(rules, targets), caps)) = {ApplyCaps(caps, h) : h \in Dedup(Hits(rules, targets))}
<1> DEFINE H == Hits(rules, targets)
           cap(h) == ApplyCaps(caps, h)
<1>1. \A h \in H : /\ Uncap(cap(h)) = h
                   /\ cap(h).file = h.file /\ cap(h).line = h.line /\ cap(h).rule = h.rule
                   /\ cap(h).nth = h.nth /\ cap(h).confidence = h.confidence
  BY CapIsUndone
<1> HIDE DEF H
<1>2. \A f : f \in Capped(H, caps) <=> \E h \in H : f = cap(h)
  BY DEF Capped
<1> HIDE DEF cap
<1>3. \A g, h \in H : /\ SameKey(cap(g), cap(h)) <=> SameKey(g, h)
                      /\ Surer(cap(g), cap(h)) <=> Surer(g, h)
                      /\ cap(g) = cap(h) <=> g = h
  BY <1>1 DEF SameKey, Surer
<1>4. \A h \in H : cap(h) \in Dedup(Capped(H, caps)) <=> h \in Dedup(H)
  BY <1>2, <1>3 DEF Dedup
<1>5. \A f \in Dedup(Capped(H, caps)) : \E h \in Dedup(H) : f = cap(h)
  <2> TAKE f \in Dedup(Capped(H, caps))
  <2>1. f \in Capped(H, caps)
    BY DEF Dedup
  <2>2. PICK h \in H : f = cap(h)
    BY <1>2, <2>1
  <2> QED BY <1>4, <2>2
<1>6. \A h \in Dedup(H) : h \in H
  BY DEF Dedup
<1>7. Dedup(Capped(H, caps)) = {cap(h) : h \in Dedup(H)}
  BY <1>4, <1>5, <1>6
<1> QED BY <1>7 DEF H, cap

\* What a scan reports and what it waives, by the findings before context rules.
Unlowered(rules, b) == Dedup(Hits(rules, Targets(b)))
Lowered(contexts, b, h) == ApplyCaps(ContextCaps(contexts, Targets(b)), h)
Out(h, b, policy) == \E w \in policy.waivers : Waives(w, h, BundleID(b))

LEMMA ScanIs ==
  ASSUME NEW b, NEW rules, NEW contexts, NEW policy
  PROVE  LET s == Scan(b, rules, contexts, policy)
         IN /\ s.findings = {Lowered(contexts, b, h) : h \in {h \in Unlowered(rules, b) : ~Out(h, b, policy)}}
            /\ s.waived = {Lowered(contexts, b, h) : h \in {h \in Unlowered(rules, b) : Out(h, b, policy)}}
            /\ s.verdict = Verdict(s.findings, policy) /\ s.score = RiskScore(s.findings)
<1> DEFINE targets == Targets(b)
           caps == ContextCaps(contexts, targets)
           kept == {Lowered(contexts, b, h) : h \in Unlowered(rules, b)}
<1>1. Scan(b, rules, contexts, policy) = Report(kept, BundleID(b), policy)
  <2>1. Dedup(Capped(Hits(rules, targets), caps)) = kept
    BY CapsAfterDedup DEF Unlowered, Lowered
  <2> QED BY <2>1 DEF Scan
<1>2. \A h \in Unlowered(rules, b) : Lowered(contexts, b, h).rule = h.rule /\ Lowered(contexts, b, h).file = h.file
  BY CapIsUndone DEF Unlowered, Lowered, Dedup
<1>3. \A h \in Unlowered(rules, b) : Out(Lowered(contexts, b, h), b, policy) <=> Out(h, b, policy)
  BY <1>2 DEF Out, Waives
<1>4. PICK K : K = kept
  OBVIOUS
<1>5. {f \in K : Out(f, b, policy)} = {Lowered(contexts, b, h) : h \in {h \in Unlowered(rules, b) : Out(h, b, policy)}}
  BY <1>3, <1>4
<1>6. K \ {f \in K : Out(f, b, policy)} = {Lowered(contexts, b, h) : h \in {h \in Unlowered(rules, b) : ~Out(h, b, policy)}}
  BY <1>3, <1>4
<1>7. LET s == Report(K, BundleID(b), policy)
      IN /\ s.waived = {f \in K : Out(f, b, policy)}
         /\ s.findings = K \ {f \in K : Out(f, b, policy)}
         /\ s.verdict = Verdict(s.findings, policy) /\ s.score = RiskScore(s.findings)
  BY DEF Report, Out
<1> QED BY <1>1, <1>4, <1>5, <1>6, <1>7

-----------------------------------------------------------------------------
(* What packs are compiled to: rules with severities, and trees to match.   *)

LEMMA KeptAreOfThose ==
  ASSUME NEW S, NEW text \in Seq(S), NEW K
  PROVE  KeepAt(text, K) \in Seq({text[i] : i \in K \cap (1..Len(text))})
<1> DEFINE N == Len(text)
<1>1. PICK T : T = {text[i] : i \in K \cap (1..N)}
  OBVIOUS
<1>2. PICK cut : Cuts(cut, S, text, K) /\ KeepAt(text, K) = cut[N]
  BY KeepAtIs
<1>3. N \in Nat
  OBVIOUS
<1> DEFINE P == {n \in Nat : n <= N => cut[n] \in Seq(T)}
<1> HIDE DEF N
<1>4. 0 \in P
  <2>1. cut[0] = <<>> /\ <<>> \in Seq(T)
    BY <1>2 DEF Cuts
  <2> QED BY <2>1
<1>5. ASSUME NEW n \in Nat, n \in P PROVE n + 1 \in P
  <2> SUFFICES ASSUME n + 1 <= N PROVE cut[n + 1] \in Seq(T)
    OBVIOUS
  <2>1. n + 1 \in 1..N /\ (n + 1) - 1 = n /\ cut[n] \in Seq(T)
    BY <1>3, <1>5
  <2>2. cut[n + 1] = cut[n] \o (IF n + 1 \in K THEN <<text[n + 1]>> ELSE <<>>)
    BY <1>2, <2>1 DEF Cuts, N
  <2>3. CASE n + 1 \in K
    <3>1. text[n + 1] \in T
      BY <1>1, <2>1, <2>3 DEF N
    <3>2. <<text[n + 1]>> \in Seq(T)
      BY <3>1
    <3> QED BY <2>1, <2>2, <2>3, <3>2, ConcatProperties
  <2>4. CASE n + 1 \notin K
    BY <2>1, <2>2, <2>4, ConcatEmptySeq
  <2> QED BY <2>3, <2>4
<1>6. N \in P
  <2> HIDE DEF P
  <2> QED BY <1>3, <1>4, <1>5, ByInduction
<1> QED BY <1>1, <1>2, <1>3, <1>6 DEF N

LEMMA FlattenIs ==
  ASSUME NEW S, NEW seqs \in Seq(Seq(S))
  PROVE  FlattenSeq(seqs) \in Seq(S)
<1> DEFINE N == Len(seqs)
           E(g) == [i \in 1..N |-> IF i = 1 THEN seqs[i] ELSE g[i - 1] \o seqs[i]]
           step == [i \in 1..N |-> [s \in Seq(S) |-> s \o seqs[i]]]
<1>1. N \in Nat /\ \A i \in 1..N : seqs[i] \in Seq(S)
  OBVIOUS
<1>2. CASE N = 0
  <2>1. seqs = <<>>
    BY <1>2
  <2>2. FlattenSeq(seqs) = seqs
    BY <1>2 DEF FlattenSeq
  <2>3. <<>> \in Seq(S)
    OBVIOUS
  <2> QED BY ONLY <2>1, <2>2, <2>3
<1>3. CASE N # 0
  <2>1. FlattenSeq(seqs) = (CHOOSE g : g = E(g))[N]
    BY <1>3 DEF FlattenSeq
  <2> HIDE DEF N
  <2>2. Steps(step, N, Seq(S))
    <3> SUFFICES ASSUME NEW i \in 1..N, NEW s \in Seq(S) PROVE step[i][s] \in Seq(S)
      BY DEF Steps
    <3>1. s \o seqs[i] \in Seq(S)
      BY <1>1, ConcatProperties
    <3> QED BY <3>1
  <2>3. PICK f : Carries(f, N, Seq(S), <<>>, step)
    <3>1. <<>> \in Seq(S)
      OBVIOUS
    <3> HIDE DEF step
    <3> QED BY <1>1, <2>2, <3>1, Carried
  <2>4. f \in [0..N -> Seq(S)] /\ f[0] = <<>> /\ \A i \in 1..N : f[i] = f[i - 1] \o seqs[i]
    <3>1. f \in [0..N -> Seq(S)] /\ f[0] = <<>> /\ \A i \in 1..N : f[i] = step[i][f[i - 1]]
      BY ONLY <2>3 DEF Carries
    <3>2. N \in Nat
      BY <1>1
    <3>3. \A i \in 1..N : i - 1 \in 0..N
      BY ONLY <3>2
    <3>4. \A i \in 1..N : f[i - 1] \in Seq(S)
      BY ONLY <3>1, <3>3
    <3>5. \A i \in 1..N, s \in Seq(S) : step[i][s] = s \o seqs[i]
      OBVIOUS
    <3> HIDE DEF step
    <3> QED BY ONLY <3>1, <3>4, <3>5
  <2>5. PICK h : h = [i \in 1..N |-> f[i]]
    OBVIOUS
  <2>6. \A i \in 1..N : h[i] = IF i = 1 THEN seqs[i] ELSE h[i - 1] \o seqs[i]
    <3> TAKE i \in 1..N
    <3>1. CASE i = 1
      <4>1. f[1] = <<>> \o seqs[1]
        <5>1. 1 \in 1..N /\ 1 - 1 = 0
          BY <1>1, <3>1
        <5>2. f[1] = f[1 - 1] \o seqs[1]
          BY <2>4, <5>1
        <5> QED BY <2>4, <5>1, <5>2
      <4>2. <<>> \o seqs[1] = seqs[1]
        BY <1>1, <3>1, ConcatEmptySeq
      <4> QED BY <2>5, <3>1, <4>1, <4>2
    <3>2. CASE i # 1
      <4>1. i - 1 \in 1..N
        BY <1>1, <3>2
      <4> QED BY <2>4, <2>5, <3>2, <4>1
    <3> QED BY <3>1, <3>2
  <2>7. h = E(h)
    BY <2>5, <2>6
  <2>8. PICK g : g = CHOOSE x : x = E(x)
    OBVIOUS
  <2>9. g = E(g)
    <3> HIDE DEF E
    <3> QED BY <2>7, <2>8
  <2>10. \A i \in 1..N : g[i] = IF i = 1 THEN seqs[i] ELSE g[i - 1] \o seqs[i]
    <3>1. \A i \in 1..N : g[i] = E(g)[i]
      <4> HIDE DEF E
      <4> QED BY <2>9
    <3> QED BY <3>1
  <2> DEFINE P == {n \in Nat : n \in 1..N => g[n] \in Seq(S)}
  <2>11. 0 \in P
    OBVIOUS
  <2>12. ASSUME NEW n \in Nat, n \in P PROVE n + 1 \in P
    <3> SUFFICES ASSUME n + 1 \in 1..N PROVE g[n + 1] \in Seq(S)
      OBVIOUS
    <3>1. CASE n = 0
      BY <1>1, <2>10, <3>1
    <3>2. CASE n # 0
      <4>1. n \in 1..N /\ (n + 1) - 1 = n /\ n + 1 # 1
        BY <1>1, <3>2
      <4>2. g[n] \in Seq(S) /\ g[n + 1] = g[n] \o seqs[n + 1]
        BY <2>10, <2>12, <4>1
      <4> QED BY <1>1, <4>2, ConcatProperties
    <3> QED BY <3>1, <3>2
  <2>13. N \in P
    <3> HIDE DEF P
    <3> QED BY <1>1, <2>11, <2>12, ByInduction
  <2>14. g[N] \in Seq(S)
    BY <1>1, <1>3, <2>13
  <2> QED BY <2>1, <2>8, <2>14
<1> QED BY <1>2, <1>3

IsPack(p) ==
  /\ IsSeq(p.rules) /\ \A r \in ToSet(p.rules) : IsRule(r)
  /\ \A c \in p.contexts : IsContext(c)

LEMMA SeveritiesAre == \A s \in DOMAIN ParseSeverity : ParseSeverity[s] \in Info..Critical
BY DEF ParseSeverity, Info, Low, Medium, High, Critical

LEMMA CompiledIs ==
  ASSUME NEW rd, rd.confidence \in Int, rd.match \in Conditions, NEW r \in Compiled(rd)
  PROVE  IF IsDetection(rd) THEN IsRule(r) ELSE IsContext(r)
<1>1. CASE IsDetection(rd)
  <2>1. r \in compileRule(rd)
    BY <1>1 DEF Compiled
  <2>2. /\ rd.severity \in DOMAIN ParseSeverity
        /\ r = [id |-> rd.id, layer |-> rd.layer, severity |-> ParseSeverity[rd.severity],
                confidence |-> rd.confidence, targets |-> rd.targets, languages |-> rd.languages,
                match |-> compileCond(rd.match), suppress |-> rd.suppress]
    BY <2>1 DEF compileRule
  <2>3. compileCond(rd.match) \in Trees
    BY TreesOfConditions
  <2> QED BY <1>1, <2>2, <2>3, SeveritiesAre DEF IsRule
<1>2. CASE ~IsDetection(rd)
  <2>1. r \in compileContext(rd)
    BY <1>2 DEF Compiled
  <2>2. PICK e \in rd.effect :
          /\ e.max \in DOMAIN ParseSeverity /\ ScopeOf(rd) \in {"line", "file", "section"}
          /\ r = [scope |-> ScopeOf(rd), targets |-> rd.targets, languages |-> rd.languages,
                  match |-> compileCond(rd.match), paths |-> rd.paths,
                  max |-> ParseSeverity[e.max], layers |-> e.layers]
    BY ONLY <2>1 DEF compileContext
  <2>3. compileCond(rd.match) \in Trees
    BY TreesOfConditions
  <2> QED BY <1>2, <2>2, <2>3, SeveritiesAre DEF IsContext
<1> QED BY <1>1, <1>2

LEMMA MadeIs ==
  ASSUME NEW S, NEW written \in Seq(S), \A rd \in S : Compiled(rd) # {}
  PROVE  /\ IsSeq(Made(written))
         /\ \A r \in ToSet(Made(written)) : \E rd \in S : r \in Compiled(rd)
<1>1. Len(written) \in Nat /\ DOMAIN written = 1..Len(written) /\ \A i \in 1..Len(written) : written[i] \in S
  OBVIOUS
<1>2. PICK made : made = Made(written)
  OBVIOUS
<1>3. DOMAIN made = 1..Len(written) /\ \A i \in 1..Len(written) : made[i] \in Compiled(written[i])
  BY <1>1, <1>2 DEF Made
<1>4. made \in [1..Len(written) -> ToSet(made)]
  BY <1>1, <1>2, <1>3 DEF Made, ToSet
<1>5. made \in Seq(ToSet(made))
  BY <1>1, <1>4
<1>6. \A r \in ToSet(made) : \E rd \in S : r \in Compiled(rd)
  BY <1>1, <1>3 DEF ToSet
<1> QED BY <1>2, <1>5, <1>6 DEF IsSeq

LEMMA LoadPackIs ==
  ASSUME NEW pack, IsSeq(pack.rules),
         \A rd \in ToSet(pack.rules) : rd.confidence \in Int /\ rd.match \in Conditions,
         NEW p \in LoadPack(pack)
  PROVE  IsPack(p)
<1> DEFINE rules == pack.rules
           detections == {i \in DOMAIN rules : IsDetection(rules[i])}
           others == DOMAIN rules \ detections
           D == {rules[i] : i \in detections \cap (1..Len(rules))}
           C == {rules[i] : i \in others \cap (1..Len(rules))}
<1>1. rules \in Seq(ToSet(rules))
  BY DEF IsSeq
<1>2. \A i \in DOMAIN rules : Compiled(rules[i]) # {} /\ rules[i].confidence \in Int /\ rules[i].match \in Conditions
  BY DEF LoadPack, ToSet
<1>3. p = [rules |-> Made(KeepAt(rules, detections)), contexts |-> ToSet(Made(KeepAt(rules, others)))]
  BY DEF LoadPack
<1>4. KeepAt(rules, detections) \in Seq(D) /\ KeepAt(rules, others) \in Seq(C)
  <2> HIDE DEF rules, detections, others
  <2> QED BY <1>1, KeptAreOfThose
<1>5. /\ \A rd \in D : Compiled(rd) # {} /\ rd.confidence \in Int /\ rd.match \in Conditions /\ IsDetection(rd)
      /\ \A rd \in C : Compiled(rd) # {} /\ rd.confidence \in Int /\ rd.match \in Conditions /\ ~IsDetection(rd)
  BY <1>1, <1>2
<1> HIDE DEF D, C, rules, detections, others
<1>6. PICK a, b : a = KeepAt(rules, detections) /\ b = KeepAt(rules, others)
  OBVIOUS
<1>7. /\ IsSeq(Made(a)) /\ \A r \in ToSet(Made(a)) : \E rd \in D : r \in Compiled(rd)
      /\ \A r \in ToSet(Made(b)) : \E rd \in C : r \in Compiled(rd)
  BY <1>4, <1>5, <1>6, MadeIs
<1>8. \A r \in ToSet(Made(a)) : IsRule(r)
  BY <1>5, <1>7, CompiledIs
<1>9. \A r \in ToSet(Made(b)) : IsContext(r)
  BY <1>5, <1>7, CompiledIs
<1> QED BY <1>3, <1>6, <1>7, <1>8, <1>9 DEF IsPack

RulesetOK ==
  /\ IsSeq(ruleset.rules) /\ \A i \in DOMAIN ruleset.rules : IsRule(ruleset.rules[i])
  /\ \A c \in ruleset.contexts : IsContext(c)

LEMMA RulesetIs ==
  ASSUME NEW w \in Worlds, NEW r \in loadRuleset(Builtin, w.packs)
  PROVE  /\ IsSeq(r.rules) /\ \A i \in DOMAIN r.rules : IsRule(r.rules[i])
         /\ \A c \in r.contexts : IsContext(c)
<1> DEFINE extra == w.packs
           loaded == [i \in DOMAIN extra |-> LoadPack(extra[i])]
           chosen == [i \in DOMAIN loaded |-> CHOOSE p \in loaded[i] : TRUE]
           P == ToSet(Builtin) \cup UNION {LoadPack(x) : x \in ToSet(extra)}
<1>1. IsSeq(Builtin) /\ IsSeq(extra)
  BY PacksAreTyped
<1>2. \A p \in P : IsPack(p)
  <2>1. ASSUME NEW x \in ToSet(extra), NEW p \in LoadPack(x) PROVE IsPack(p)
    <3>1. IsSeq(x.rules) /\ \A rd \in ToSet(x.rules) : rd.confidence \in Int /\ rd.match \in Conditions
      BY PacksAreTyped
    <3> QED BY <3>1, LoadPackIs
  <2>2. ASSUME NEW p \in ToSet(Builtin) PROVE IsPack(p)
    BY PacksAreTyped DEF IsPack
  <2> QED BY <2>1, <2>2
<1>3. /\ \A i \in DOMAIN loaded : loaded[i] # {}
      /\ r = [rules |-> FlattenSeq([i \in DOMAIN (Builtin \o chosen) |-> (Builtin \o chosen)[i].rules]),
              contexts |-> UNION {(Builtin \o chosen)[i].contexts : i \in DOMAIN (Builtin \o chosen)}]
  BY DEF loadRuleset
<1>4. chosen \in Seq(P)
  <2>1. Len(extra) \in Nat /\ DOMAIN extra = 1..Len(extra)
    BY <1>1 DEF IsSeq
  <2>2. \A i \in DOMAIN extra : extra[i] \in ToSet(extra) /\ chosen[i] \in LoadPack(extra[i])
    BY <1>3 DEF ToSet
  <2>3. \A i \in DOMAIN extra : chosen[i] \in P
    BY <2>2
  <2>4. chosen \in [1..Len(extra) -> P]
    <3>1. DOMAIN loaded = 1..Len(extra)
      BY <2>1
    <3>2. chosen = [i \in 1..Len(extra) |-> chosen[i]]
      BY <3>1
    <3> HIDE DEF chosen
    <3> QED BY <2>1, <2>3, <3>2
  <2> HIDE DEF chosen, P
  <2> QED BY <2>1, <2>4
<1>5. Builtin \in Seq(P)
  <2>1. ToSet(Builtin) \subseteq P /\ Builtin \in Seq(ToSet(Builtin))
    BY <1>1 DEF IsSeq
  <2> HIDE DEF P
  <2> QED BY <2>1, SeqMonotonic
<1> HIDE DEF chosen, P
<1>6. PICK all : all = Builtin \o chosen
  OBVIOUS
<1>7. all \in Seq(P)
  BY <1>4, <1>5, <1>6, ConcatProperties
<1>8. Len(all) \in Nat /\ DOMAIN all = 1..Len(all) /\ \A i \in 1..Len(all) : all[i] \in P
  BY <1>7
<1>9. PICK R : R = UNION {ToSet(p.rules) : p \in P}
  OBVIOUS
<1>10. \A i \in 1..Len(all) : all[i].rules \in Seq(R)
  <2> TAKE i \in 1..Len(all)
  <2>1. IsPack(all[i]) /\ ToSet(all[i].rules) \subseteq R
    BY <1>2, <1>8, <1>9
  <2> QED BY <2>1, SeqMonotonic DEF IsPack, IsSeq
<1>11. PICK parts : parts = [i \in DOMAIN all |-> all[i].rules]
  OBVIOUS
<1>12. parts \in Seq(Seq(R))
  <2>1. parts \in [1..Len(all) -> Seq(R)]
    BY <1>8, <1>10, <1>11
  <2> QED BY <1>8, <2>1
<1>13. r.rules = FlattenSeq(parts) /\ r.contexts = UNION {all[i].contexts : i \in DOMAIN all}
  BY <1>3, <1>6, <1>11
<1>14. r.rules \in Seq(R)
  BY <1>12, <1>13, FlattenIs
<1>15. \A x \in R : IsRule(x)
  BY <1>2, <1>9 DEF IsPack
<1>16. \A c \in r.contexts : IsContext(c)
  BY <1>2, <1>8, <1>13 DEF IsPack
<1>17. \A i \in DOMAIN r.rules : IsRule(r.rules[i])
  BY <1>14, <1>15
<1> QED BY <1>14, <1>16, <1>17, SeqOfItself

LEMMA RulesetInit == Init => RulesetOK
<1> SUFFICES ASSUME Init PROVE RulesetOK
  OBVIOUS
<1>1. PICK w \in Worlds : ruleset \in loadRuleset(Builtin, w.packs)
  BY DEF Init
<1>2. PICK r : r = ruleset
  OBVIOUS
<1> QED BY <1>1, RulesetIs DEF RulesetOK

LEMMA RulesetStep == RulesetOK /\ [Next]_vars => RulesetOK'
BY DEF RulesetOK, Next, vars

-----------------------------------------------------------------------------
(* What a tree matches: finitely many places, each with a confidence.        *)

LEMMA ImageIsFinite ==
  ASSUME NEW S, IsFiniteSet(S), NEW f
  PROVE  IsFiniteSet({f[x] : x \in S})
<1> DEFINE T == {f[x] : x \in S}
           g == [x \in S |-> f[x]]
<1>1. g \in Surjection(S, T)
  BY DEF Surjection
<1> QED BY <1>1, FS_Surjection

UptoLevel(n) == UNION {TreeLevels[k] : k \in 1..n}
IsNode(c, n) ==
  /\ c.op \in {"any", "all", "not"} /\ IsSeq(c.of) /\ (c.op = "all" => c.of # <<>>)
  /\ \A i \in DOMAIN c.of : c.of[i] \in UptoLevel(n)

LEMMA TreesByLevel ==
  /\ Len(TreeLevels) \in Nat /\ Trees = UptoLevel(Len(TreeLevels))
  /\ \A n \in 1..Len(TreeLevels) : \A c \in UptoLevel(n) :
       (c.op = "leaf" /\ c.confidence \in Int) \/ IsNode(c, n - 1)
<1>1. Len(TreeLevels) \in Nat /\ DOMAIN TreeLevels = 1..Len(TreeLevels)
  BY TreesAreFinite
<1>2. Trees = UptoLevel(Len(TreeLevels))
  BY <1>1 DEF Trees, UptoLevel
<1>3. ASSUME NEW n \in 1..Len(TreeLevels), NEW c \in UptoLevel(n), c.op # "leaf" \/ c.confidence \notin Int
      PROVE  IsNode(c, n - 1)
  <2>1. PICK k \in 1..n : c \in TreeLevels[k]
    BY DEF UptoLevel
  <2>2. k \in DOMAIN TreeLevels
    BY <1>1
  <2>3. /\ c.op \in {"any", "all", "not"} /\ IsSeq(c.of) /\ (c.op = "all" => c.of # <<>>)
        /\ \A i \in DOMAIN c.of : \E m \in DOMAIN TreeLevels : m < k /\ c.of[i] \in TreeLevels[m]
    <3>1. \/ c.op = "leaf" /\ c.confidence \in Int
          \/ /\ c.op \in {"any", "all", "not"} /\ IsSeq(c.of) /\ (c.op = "all" => c.of # <<>>)
             /\ \A i \in DOMAIN c.of : \E m \in DOMAIN TreeLevels : m < k /\ c.of[i] \in TreeLevels[m]
      BY <2>1, <2>2, TreesAreFinite
    <3> QED BY <1>3, <3>1
  <2>4. \A i \in DOMAIN c.of : c.of[i] \in UptoLevel(n - 1)
    <3> TAKE i \in DOMAIN c.of
    <3>1. PICK m \in DOMAIN TreeLevels : m < k /\ c.of[i] \in TreeLevels[m]
      BY <2>3
    <3>2. m \in 1..(n - 1)
      BY <1>1, <3>1
    <3> QED BY <3>1, <3>2 DEF UptoLevel
  <2> QED BY <2>3, <2>4 DEF IsNode
<1> QED BY <1>1, <1>2, <1>3

\* What a tree matches when f says what its branches match.
Under(i, at) == <<i>> \o at
Placed(i, m) == [m EXCEPT !.at = Under(i, @)]
Joined(tree, f) == UNION {{Placed(i, m) : m \in f[tree.of[i]]} : i \in DOMAIN tree.of}
FirstLine(confidence) ==
  {[line |-> 1, structural |-> FALSE, excerpt |-> "", at |-> <<>>, confidence |-> confidence]}
Matches(tree, f, confidence, text) ==
  CASE tree.op = "leaf" -> EvalLeaf(tree, confidence, text)
    [] tree.op = "any"  -> Joined(tree, f)
    [] tree.op = "all"  -> IF \E i \in DOMAIN tree.of : f[tree.of[i]] = {} THEN {} ELSE f[tree.of[1]]
    [] tree.op = "not"  -> IF \E i \in DOMAIN tree.of : f[tree.of[i]] # {} THEN {} ELSE FirstLine(confidence)

LEMMA LeafMatches ==
  ASSUME NEW tree, NEW f, NEW confidence, NEW text, tree.op = "leaf"
  PROVE  Matches(tree, f, confidence, text) = EvalLeaf(tree, confidence, text)
BY DEF Matches

LEMMA AnyMatches ==
  ASSUME NEW tree, NEW f, NEW confidence, NEW text, tree.op = "any"
  PROVE  Matches(tree, f, confidence, text) = Joined(tree, f)
BY DEF Matches

LEMMA AllMatch ==
  ASSUME NEW tree, NEW f, NEW confidence, NEW text, tree.op = "all"
  PROVE  Matches(tree, f, confidence, text) =
           IF \E i \in DOMAIN tree.of : f[tree.of[i]] = {} THEN {} ELSE f[tree.of[1]]
BY DEF Matches

LEMMA NotMatches ==
  ASSUME NEW tree, NEW f, NEW confidence, NEW text, tree.op = "not"
  PROVE  Matches(tree, f, confidence, text) =
           IF \E i \in DOMAIN tree.of : f[tree.of[i]] # {} THEN {} ELSE FirstLine(confidence)
BY DEF Matches

LEMMA MatchesAgree ==
  ASSUME NEW n, NEW tree, NEW f, NEW g, NEW confidence, NEW text,
         tree.op = "leaf" \/ IsNode(tree, n), \A c \in UptoLevel(n) : f[c] = g[c]
  PROVE  Matches(tree, f, confidence, text) = Matches(tree, g, confidence, text)
<1>1. CASE tree.op = "leaf"
  BY <1>1, LeafMatches
<1>2. CASE IsNode(tree, n)
  <2>1. \A i \in DOMAIN tree.of : f[tree.of[i]] = g[tree.of[i]]
    BY <1>2 DEF IsNode
  <2>2. tree.op = "all" => 1 \in DOMAIN tree.of
    BY <1>2 DEF IsNode, IsSeq
  <2>3. CASE tree.op = "any"
    <3>1. \A i \in DOMAIN tree.of : {Placed(i, m) : m \in f[tree.of[i]]} = {Placed(i, m) : m \in g[tree.of[i]]}
      BY <2>1
    <3>2. Joined(tree, f) = Joined(tree, g)
      BY <3>1 DEF Joined
    <3> QED BY <2>3, <3>2, AnyMatches
  <2>4. CASE tree.op = "all"
    <3>1. f[tree.of[1]] = g[tree.of[1]]
      BY <2>1, <2>2, <2>4
    <3>2. (\E i \in DOMAIN tree.of : f[tree.of[i]] = {}) <=> (\E i \in DOMAIN tree.of : g[tree.of[i]] = {})
      BY <2>1
    <3> QED BY <2>4, <3>1, <3>2, AllMatch
  <2>5. CASE tree.op = "not"
    BY <2>1, <2>5, NotMatches
  <2> QED BY <1>2, <2>3, <2>4, <2>5 DEF IsNode
<1> QED BY <1>1, <1>2

\* The evaluation by recursion is there, and a tree matches what its branches make it.
LEMMA EvalExists ==
  ASSUME NEW confidence, NEW text
  PROVE  \E f : /\ \A tree \in Trees : f[tree] = Matches(tree, f, confidence, text)
                /\ \A tree \in Trees : Eval(tree, confidence, text) = f[tree]
<1> DEFINE N == Len(TreeLevels)
           E(g) == [tree \in Trees |-> Matches(tree, g, confidence, text)]
           Good(g, n) == \A tree \in UptoLevel(n) : g[tree] = Matches(tree, g, confidence, text)
           P == {n \in Nat : n <= N => \E g : Good(g, n)}
<1>1. N \in Nat /\ Trees = UptoLevel(N)
  BY TreesByLevel
<1>2. 0 \in P
  <2>1. UptoLevel(0) = {}
    BY DEF UptoLevel
  <2> QED BY <2>1
<1>3. ASSUME NEW n \in Nat, n \in P PROVE n + 1 \in P
  <2> SUFFICES ASSUME n + 1 <= N PROVE \E g : Good(g, n + 1)
    OBVIOUS
  <2>1. PICK g : Good(g, n)
    BY <1>1, <1>3
  <2>2. PICK h : h = [tree \in Trees |-> IF tree \in UptoLevel(n) THEN g[tree] ELSE Matches(tree, g, confidence, text)]
    OBVIOUS
  <2>3. UptoLevel(n) \subseteq UptoLevel(n + 1) /\ UptoLevel(n + 1) \subseteq Trees
    <3>1. 1..n \subseteq 1..(n + 1) /\ 1..(n + 1) \subseteq 1..N
      BY <1>1
    <3> QED BY <1>1, <3>1 DEF UptoLevel
  <2>4. \A c \in UptoLevel(n) : g[c] = h[c]
    BY <2>2, <2>3
  <2>5. ASSUME NEW tree \in UptoLevel(n + 1) PROVE h[tree] = Matches(tree, h, confidence, text)
    <3>1. n + 1 \in 1..Len(TreeLevels) /\ (n + 1) - 1 = n
      BY <1>1
    <3>2. tree.op = "leaf" \/ IsNode(tree, n)
      BY <3>1, TreesByLevel
    <3>3. Matches(tree, g, confidence, text) = Matches(tree, h, confidence, text)
      BY <2>4, <3>2, MatchesAgree
    <3>4. h[tree] = Matches(tree, g, confidence, text)
      BY <2>1, <2>2, <2>3
    <3> QED BY <3>3, <3>4
  <2> QED BY <2>5
<1>4. N \in P
  <2> HIDE DEF P
  <2> QED BY <1>1, <1>2, <1>3, ByInduction
<1>5. PICK g : \A tree \in Trees : g[tree] = Matches(tree, g, confidence, text)
  BY <1>1, <1>4
<1>6. PICK h : h = [tree \in Trees |-> g[tree]]
  OBVIOUS
<1>7. h = E(h)
  <2>1. \A tree \in Trees : h[tree] = Matches(tree, h, confidence, text)
    <3> TAKE tree \in Trees
    <3>1. CASE tree.op = "leaf"
      BY <1>5, <1>6, <3>1, LeafMatches
    <3>2. CASE tree.op # "leaf"
      <4>1. N \in 1..Len(TreeLevels)
        BY <1>1 DEF UptoLevel
      <4>2. IsNode(tree, N - 1) /\ UptoLevel(N - 1) \subseteq Trees
        <5>1. 1..(N - 1) \subseteq 1..N
          BY <1>1
        <5> QED BY <1>1, <3>2, <4>1, <5>1, TreesByLevel DEF UptoLevel
      <4>3. \A c \in UptoLevel(N - 1) : g[c] = h[c]
        BY <1>6, <4>2
      <4> QED BY <1>5, <1>6, <4>2, <4>3, MatchesAgree
    <3> QED BY <3>1, <3>2
  <2> QED BY <1>6, <2>1
<1>8. PICK f : f = CHOOSE x : x = E(x)
  OBVIOUS
<1>9. f = E(f)
  <2> HIDE DEF E
  <2> QED BY <1>7, <1>8
<1>10. \A tree \in Trees : Eval(tree, confidence, text) = f[tree]
  BY <1>8 DEF Eval, Matches, Joined, Placed, Under, FirstLine
<1>11. \A tree \in Trees : f[tree] = Matches(tree, f, confidence, text)
  <2>1. \A tree \in Trees : f[tree] = E(f)[tree]
    <3> HIDE DEF E
    <3> QED BY <1>9
  <2> QED BY <2>1
<1> QED BY <1>10, <1>11

IsMatch(m) ==
  \E structural, excerpt : \E at \in Seq(Int), line \in Int, confidence \in Int :
    m = [line |-> line, structural |-> structural, excerpt |-> excerpt, at |-> at, confidence |-> confidence]

LEMMA RecordsAreMatches ==
  ASSUME NEW structural, NEW excerpt, NEW at \in Seq(Int), NEW line \in Int, NEW confidence \in Int
  PROVE  IsMatch([line |-> line, structural |-> structural, excerpt |-> excerpt, at |-> at, confidence |-> confidence])
BY DEF IsMatch

LEMMA EvalIs ==
  ASSUME NEW tree \in Trees, NEW confidence \in Int, NEW text, IsSeq(text)
  PROVE  IsFiniteSet(Eval(tree, confidence, text)) /\ \A m \in Eval(tree, confidence, text) : IsMatch(m)
<1> DEFINE N == Len(TreeLevels)
           OK(S) == IsFiniteSet(S) /\ \A m \in S : IsMatch(m)
<1>1. PICK f : /\ \A t \in Trees : f[t] = Matches(t, f, confidence, text)
               /\ \A t \in Trees : Eval(t, confidence, text) = f[t]
  BY EvalExists
<1>2. N \in Nat /\ Trees = UptoLevel(N)
  BY TreesByLevel
<1> DEFINE P == {n \in Nat : n <= N => \A t \in UptoLevel(n) : OK(f[t])}
<1> HIDE DEF OK
<1>3. 0 \in P
  <2>1. UptoLevel(0) = {}
    BY DEF UptoLevel
  <2> QED BY <2>1
<1>4. ASSUME NEW n \in Nat, n \in P PROVE n + 1 \in P
  <2> SUFFICES ASSUME n + 1 <= N, NEW t \in UptoLevel(n + 1) PROVE OK(f[t])
    OBVIOUS
  <2>1. t \in Trees
    <3>1. 1..(n + 1) \subseteq 1..N
      BY <1>2
    <3> QED BY <1>2, <3>1 DEF UptoLevel
  <2>2. f[t] = Matches(t, f, confidence, text)
    BY <1>1, <2>1
  <2>3. (t.op = "leaf" /\ t.confidence \in Int) \/ IsNode(t, n)
    <3>1. n + 1 \in 1..Len(TreeLevels) /\ (n + 1) - 1 = n
      BY <1>2
    <3> QED BY <3>1, TreesByLevel
  <2>4. CASE t.op = "leaf" /\ t.confidence \in Int
    <3> DEFINE places == {i \in DOMAIN text : t.mark \in text[i].marks}
               own == IF t.confidence = 0 THEN confidence ELSE t.confidence
               sure == IF own = 0 THEN EmitThreshold ELSE own
               at(i) == [line |-> i, structural |-> t.structural, excerpt |-> t.mark, at |-> <<>>, confidence |-> sure]
    <3>1. EvalLeaf(t, confidence, text) = {at(i) : i \in places}
      BY DEF EvalLeaf
    <3>2. IsFiniteSet(places)
      <4>1. Len(text) \in Nat /\ places \subseteq 1..Len(text)
        BY DEF IsSeq
      <4>2. 1 \in Int /\ Len(text) \in Int
        BY ONLY <4>1
      <4>3. IsFiniteSet(1..Len(text))
        BY ONLY <4>2, FS_Interval
      <4> HIDE DEF places
      <4> QED BY ONLY <4>1, <4>3, FS_Subset
    <3>3. sure \in Int
      BY <2>4 DEF EmitThreshold
    <3>4. places \subseteq Int
      BY DEF IsSeq
    <3>5. \A i \in places : IsMatch(at(i))
      <4> TAKE i \in places
      <4>1. i \in Int
        BY <3>4
      <4>2. <<>> \in Seq(Int)
        OBVIOUS
      <4> HIDE DEF sure
      <4> QED BY <3>3, <4>1, <4>2, RecordsAreMatches
    <3> HIDE DEF places, at
    <3>6. IsFiniteSet({at(i) : i \in places})
      <4>1. PICK g : g = [i \in places |-> at(i)]
        OBVIOUS
      <4>2. {at(i) : i \in places} = {g[i] : i \in places}
        BY <4>1
      <4> QED BY <3>2, <4>2, ImageIsFinite
    <3> QED BY <2>2, <2>4, <3>1, <3>5, <3>6, LeafMatches DEF OK
  <2>5. CASE IsNode(t, n)
    <3>1. IsSeq(t.of) /\ \A i \in DOMAIN t.of : OK(f[t.of[i]])
      BY <1>4, <2>5 DEF IsNode
    <3>2. IsFiniteSet(DOMAIN t.of)
      BY <3>1, FS_Interval DEF IsSeq
    <3>3. CASE t.op = "any"
      <4> DEFINE part(i) == {Placed(i, m) : m \in f[t.of[i]]}
      <4>1. f[t] = UNION {part(i) : i \in DOMAIN t.of}
        <5>1. f[t] = Joined(t, f)
          BY <2>2, <3>3, AnyMatches
        <5> QED BY <5>1 DEF Joined
      <4>2. \A i \in DOMAIN t.of : \A m \in f[t.of[i]] : IsMatch(Placed(i, m))
        <5> TAKE i \in DOMAIN t.of
        <5> TAKE m \in f[t.of[i]]
        <5>1. PICK structural, excerpt, at, line, c : at \in Seq(Int) /\ line \in Int /\ c \in Int /\
                m = [line |-> line, structural |-> structural, excerpt |-> excerpt, at |-> at, confidence |-> c]
          BY <3>1 DEF OK, IsMatch
        <5>2. Placed(i, m) = [line |-> line, structural |-> structural, excerpt |-> excerpt, at |-> Under(i, at), confidence |-> c]
          BY ONLY <5>1 DEF Placed
        <5>3. Under(i, at) \in Seq(Int)
          <6>1. i \in Int
            BY <3>1 DEF IsSeq
          <6>2. PICK one : one = <<i>>
            OBVIOUS
          <6>3. one \in Seq(Int) /\ at \in Seq(Int)
            BY <5>1, <6>1, <6>2
          <6>4. one \o at \in Seq(Int)
            BY ONLY <6>3, ConcatProperties
          <6> QED BY ONLY <6>2, <6>4 DEF Under
        <5> QED BY <5>1, <5>2, <5>3, RecordsAreMatches
      <4>3. \A i \in DOMAIN t.of : IsFiniteSet(part(i))
        <5> TAKE i \in DOMAIN t.of
        <5>1. PICK S, g : S = f[t.of[i]] /\ g = [m \in S |-> Placed(i, m)]
          OBVIOUS
        <5>2. IsFiniteSet(S)
          BY <3>1, <5>1 DEF OK
        <5>3. part(i) = {g[m] : m \in S}
          BY <5>1
        <5> QED BY <5>2, <5>3, ImageIsFinite
      <4>4. \A i \in DOMAIN t.of : \A m \in part(i) : IsMatch(m)
        BY <4>2
      <4> HIDE DEF part
      <4>5. IsFiniteSet({part(i) : i \in DOMAIN t.of})
        <5>1. PICK D, g : D = DOMAIN t.of /\ g = [i \in D |-> part(i)]
          OBVIOUS
        <5>2. {part(i) : i \in DOMAIN t.of} = {g[i] : i \in D}
          BY <5>1
        <5> QED BY <3>2, <5>1, <5>2, ImageIsFinite
      <4>6. IsFiniteSet(UNION {part(i) : i \in DOMAIN t.of})
        BY <4>3, <4>5, FS_UNION
      <4> QED BY <4>1, <4>4, <4>6 DEF OK
    <3>4. CASE t.op = "all"
      <4>1. 1 \in DOMAIN t.of
        BY <2>5, <3>4 DEF IsNode, IsSeq
      <4>2. OK({})
        BY FS_EmptySet DEF OK
      <4>3. f[t] = {} \/ f[t] = f[t.of[1]]
        BY <2>2, <3>4, AllMatch
      <4> QED BY <3>1, <4>1, <4>2, <4>3
    <3>5. CASE t.op = "not"
      <4>1. \A m \in FirstLine(confidence) : IsMatch(m)
        <5>1. PICK one : FirstLine(confidence) = {one} /\ one = [line |-> 1, structural |-> FALSE, excerpt |-> "", at |-> <<>>, confidence |-> confidence]
          BY DEF FirstLine
        <5>2. IsMatch(one)
          <6>1. PICK no : no = FALSE
            OBVIOUS
          <6>2. PICK empty : empty = <<>>
            OBVIOUS
          <6>3. PICK none : none = ""
            OBVIOUS
          <6>4. empty \in Seq(Int)
            BY <6>2
          <6>5. one = [line |-> 1, structural |-> no, excerpt |-> none, at |-> empty, confidence |-> confidence]
            BY ONLY <5>1, <6>1, <6>2, <6>3
          <6>6. 1 \in Int /\ confidence \in Int
            OBVIOUS
          <6>7. IsMatch([line |-> 1, structural |-> no, excerpt |-> none, at |-> empty, confidence |-> confidence])
            BY ONLY <6>4, <6>6, RecordsAreMatches
          <6> QED BY ONLY <6>5, <6>7
        <5> QED BY <5>1, <5>2
      <4>2. OK({}) /\ OK(FirstLine(confidence))
        BY <4>1, FS_EmptySet, FS_Singleton DEF OK, FirstLine
      <4>3. f[t] = {} \/ f[t] = FirstLine(confidence)
        BY <2>2, <3>5, NotMatches
      <4> QED BY <4>2, <4>3
    <3> QED BY <2>5, <3>3, <3>4, <3>5 DEF IsNode
  <2> QED BY <2>3, <2>4, <2>5
<1>5. N \in P
  <2> HIDE DEF P
  <2> QED BY <1>2, <1>3, <1>4, ByInduction
<1>6. OK(f[tree])
  BY <1>2, <1>5
<1> QED BY <1>1, <1>6 DEF OK

\* A match is on a line of the text, or on the first for want of one.
LEMMA EvalLines ==
  ASSUME NEW tree \in Trees, NEW confidence \in Int, NEW text, IsSeq(text)
  PROVE  \A m \in Eval(tree, confidence, text) : m.line \in DOMAIN text \cup {1}
<1> DEFINE N == Len(TreeLevels)
           On(S) == \A m \in S : IsMatch(m) /\ m.line \in DOMAIN text \cup {1}
<1>1. PICK f : /\ \A t \in Trees : f[t] = Matches(t, f, confidence, text)
               /\ \A t \in Trees : Eval(t, confidence, text) = f[t]
  BY EvalExists
<1>2. N \in Nat /\ Trees = UptoLevel(N)
  BY TreesByLevel
<1> DEFINE P == {n \in Nat : n <= N => \A t \in UptoLevel(n) : On(f[t])}
<1> HIDE DEF On
<1>3. 0 \in P
  <2>1. UptoLevel(0) = {}
    BY DEF UptoLevel
  <2> QED BY <2>1
<1>4. ASSUME NEW n \in Nat, n \in P PROVE n + 1 \in P
  <2> SUFFICES ASSUME n + 1 <= N, NEW t \in UptoLevel(n + 1) PROVE On(f[t])
    OBVIOUS
  <2>1. t \in Trees
    <3>1. 1..(n + 1) \subseteq 1..N
      BY <1>2
    <3> QED BY <1>2, <3>1 DEF UptoLevel
  <2>2. f[t] = Matches(t, f, confidence, text) /\ \A m \in f[t] : IsMatch(m)
    BY <1>1, <2>1, EvalIs
  <2>3. (t.op = "leaf" /\ t.confidence \in Int) \/ IsNode(t, n)
    <3>1. n + 1 \in 1..Len(TreeLevels) /\ (n + 1) - 1 = n
      BY <1>2
    <3> QED BY <3>1, TreesByLevel
  <2>4. CASE t.op = "leaf" /\ t.confidence \in Int
    <3>1. f[t] = EvalLeaf(t, confidence, text)
      BY <2>2, <2>4, LeafMatches
    <3>2. \A m \in f[t] : m.line \in DOMAIN text
      BY ONLY <3>1 DEF EvalLeaf
    <3> QED BY <2>2, <3>2 DEF On
  <2>5. CASE IsNode(t, n)
    <3>1. IsSeq(t.of) /\ \A i \in DOMAIN t.of : On(f[t.of[i]])
      BY <1>4, <2>5 DEF IsNode
    <3>2. CASE t.op = "any"
      <4>1. f[t] = Joined(t, f)
        BY <2>2, <3>2, AnyMatches
      <4>2. ASSUME NEW i \in DOMAIN t.of, NEW m \in f[t.of[i]] PROVE Placed(i, m).line = m.line
        <5>1. IsMatch(m)
          BY <3>1 DEF On
        <5>2. PICK structural, excerpt, at, line, c :
                m = [line |-> line, structural |-> structural, excerpt |-> excerpt, at |-> at, confidence |-> c]
          BY ONLY <5>1 DEF IsMatch
        <5> QED BY ONLY <5>2 DEF Placed
      <4>3. \A m \in f[t] : \E i \in DOMAIN t.of : \E k \in f[t.of[i]] : m = Placed(i, k)
        BY <4>1 DEF Joined
      <4> QED BY <2>2, <3>1, <4>2, <4>3 DEF On
    <3>3. CASE t.op = "all"
      <4>1. 1 \in DOMAIN t.of
        BY <2>5, <3>3 DEF IsNode, IsSeq
      <4>2. f[t] = {} \/ f[t] = f[t.of[1]]
        BY <2>2, <3>3, AllMatch
      <4> QED BY <3>1, <4>1, <4>2 DEF On
    <3>4. CASE t.op = "not"
      <4>1. f[t] = {} \/ f[t] = FirstLine(confidence)
        BY <2>2, <3>4, NotMatches
      <4>2. \A m \in FirstLine(confidence) : m.line = 1
        <5>1. PICK one : FirstLine(confidence) = {one}
                /\ one = [line |-> 1, structural |-> FALSE, excerpt |-> "", at |-> <<>>, confidence |-> confidence]
          BY DEF FirstLine
        <5>2. one.line = 1
          <6>1. PICK no, none, empty : no = FALSE /\ none = <<>> /\ empty = ""
            OBVIOUS
          <6>2. one = [line |-> 1, structural |-> no, excerpt |-> empty, at |-> none, confidence |-> confidence]
            BY ONLY <5>1, <6>1
          <6> QED BY ONLY <6>2
        <5> QED BY ONLY <5>1, <5>2
      <4> QED BY <2>2, <4>1, <4>2 DEF On
    <3> QED BY <2>5, <3>2, <3>3, <3>4 DEF IsNode
  <2> QED BY <2>3, <2>4, <2>5
<1>5. N \in P
  <2> HIDE DEF P
  <2> QED BY <1>2, <1>3, <1>4, ByInduction
<1>6. On(f[tree])
  BY <1>2, <1>5
<1> QED BY <1>1, <1>6 DEF On

-----------------------------------------------------------------------------
(* The surest of the matches of a line is one of them.                      *)

LEMMA MinIs ==
  ASSUME NEW S, S \subseteq Nat, S # {}
  PROVE  Min(S) \in S /\ \A x \in S : Min(S) <= x
BY LeastExists DEF Min

LEMMA MinOfTwo ==
  ASSUME NEW a \in Int, NEW b \in Int
  PROVE  Min({a, b}) = IF a <= b THEN a ELSE b
<1>1. PICK m : m = IF a <= b THEN a ELSE b
  OBVIOUS
<1>2. m \in {a, b} /\ \A x \in {a, b} : m <= x
  BY <1>1
<1>3. \A x \in {a, b} : (\A y \in {a, b} : x <= y) => x = m
  BY <1>1
<1> QED BY <1>1, <1>2, <1>3 DEF Min

LEMMA MaxOfTwo ==
  ASSUME NEW a \in Int, NEW b \in Int
  PROVE  Max({a, b}) = IF a >= b THEN a ELSE b
<1>1. PICK m : m = IF a >= b THEN a ELSE b
  OBVIOUS
<1>2. m \in {a, b} /\ \A x \in {a, b} : m >= x
  BY <1>1
<1>3. \A x \in {a, b} : (\A y \in {a, b} : x >= y) => x = m
  BY <1>1
<1> QED BY <1>1, <1>2, <1>3 DEF Max

LEMMA ConfidenceIs ==
  ASSUME NEW t, NEW m, m.confidence \in Int
  PROVE  Confidence(t, m) \in 0..100
<1>1. PICK c : c = m.confidence + Modifier(t, m)
  OBVIOUS
<1>2. c \in Int
  BY <1>1 DEF Modifier, Instruction, CodeExample, Documentary
<1>3. PICK d : d = Min({100, c})
  OBVIOUS
<1>4. d \in Int /\ d <= 100
  BY <1>2, <1>3, MinOfTwo
<1>5. Max({0, d}) \in 0..100
  <2>1. Max({0, d}) = IF 0 >= d THEN 0 ELSE d
    BY <1>4, MaxOfTwo
  <2> QED BY <1>4, <2>1
<1> QED BY <1>1, <1>3, <1>5 DEF Confidence

\* A finite set has a member with nothing before it.
LEMMA FirstExists ==
  ASSUME NEW S, IsFiniteSet(S), S # {}, NEW R,
         \A x \in S : <<x, x>> \notin R,
         \A x, y, z \in S : <<x, y>> \in R /\ <<y, z>> \in R => <<x, z>> \in R
  PROVE  \E m \in S : \A n \in S : <<n, m>> \notin R
<1> DEFINE Foremost(T) == \E m \in T : \A n \in T : <<n, m>> \notin R
           P == {k \in Nat : \A T \in SUBSET S : T # {} /\ Cardinality(T) = k => Foremost(T)}
<1>1. \A T \in SUBSET S : IsFiniteSet(T) /\ Cardinality(T) \in Nat
  BY FS_Subset, FS_CardinalityType
<1>2. 0 \in P
  BY <1>1, FS_EmptySet
<1>3. ASSUME NEW k \in Nat, k \in P PROVE k + 1 \in P
  <2> SUFFICES ASSUME NEW T \in SUBSET S, T # {}, Cardinality(T) = k + 1 PROVE Foremost(T)
    OBVIOUS
  <2>1. PICK x \in T : TRUE
    OBVIOUS
  <2>2. Cardinality(T \ {x}) = k
    <3>1. IsFiniteSet(T)
      BY <1>1
    <3>2. Cardinality(T \ {x}) = Cardinality(T) - 1
      BY <2>1, <3>1, FS_RemoveElement
    <3> QED BY <3>2
  <2>3. CASE T \ {x} = {}
    <3>1. T = {x}
      BY <2>1, <2>3
    <3> QED BY <3>1
  <2>4. CASE T \ {x} # {}
    <3>1. PICK m \in T \ {x} : \A n \in T \ {x} : <<n, m>> \notin R
      BY <1>3, <2>2, <2>4
    <3>2. CASE <<x, m>> \in R
      <4>1. ASSUME NEW n \in T, <<n, x>> \in R PROVE FALSE
        <5>1. <<n, m>> \in R /\ n # x
          BY <2>1, <3>1, <3>2, <4>1
        <5> QED BY <3>1, <5>1
      <4> QED BY <2>1, <4>1
    <3>3. CASE <<x, m>> \notin R
      BY <3>1, <3>3
    <3> QED BY <3>2, <3>3
  <2> QED BY <2>3, <2>4
<1>4. Cardinality(S) \in P
  <2> HIDE DEF P
  <2> QED BY <1>1, <1>2, <1>3, ByInduction
<1> QED BY <1>1, <1>4

LEMMA LessThrough ==
  ASSUME NEW a \in Int, NEW b \in Int, NEW c \in Int, a < b, b = c \/ b < c
  PROVE  a < c
OBVIOUS

LEMMA EarlierIsOrder ==
  ASSUME NEW p \in Seq(Int), NEW q \in Seq(Int), NEW r \in Seq(Int)
  PROVE  ~Earlier(p, p) /\ (Earlier(p, q) /\ Earlier(q, r) => Earlier(p, r))
<1>1. /\ Len(p) \in Nat /\ DOMAIN p = 1..Len(p) /\ \A i \in 1..Len(p) : p[i] \in Int
      /\ Len(q) \in Nat /\ DOMAIN q = 1..Len(q) /\ \A i \in 1..Len(q) : q[i] \in Int
      /\ Len(r) \in Nat /\ DOMAIN r = 1..Len(r) /\ \A i \in 1..Len(r) : r[i] \in Int
  OBVIOUS
<1>2. ~Earlier(p, p)
  BY <1>1 DEF Earlier
<1>3. ASSUME Earlier(p, q), Earlier(q, r) PROVE Earlier(p, r)
  <2>1. PICK k \in DOMAIN p \cap DOMAIN q : p[k] < q[k] /\ \A j \in 1..(k - 1) : p[j] = q[j]
    BY <1>3 DEF Earlier
  <2>2. PICK l \in DOMAIN q \cap DOMAIN r : q[l] < r[l] /\ \A j \in 1..(l - 1) : q[j] = r[j]
    BY <1>3 DEF Earlier
  <2>3. CASE k <= l
    <3>1. k \in DOMAIN p \cap DOMAIN r
      BY <1>1, <2>3
    <3>2. p[k] < r[k]
      <4>1. q[k] = r[k] \/ q[k] < r[k]
        <5>1. k = l \/ k \in 1..(l - 1)
          BY <1>1, <2>3
        <5> QED BY <2>2, <5>1
      <4>2. p[k] \in Int /\ q[k] \in Int /\ r[k] \in Int
        BY <1>1, <3>1
      <4>3. p[k] < q[k]
        BY <2>1
      <4> QED BY <4>1, <4>2, <4>3, LessThrough
    <3>3. \A j \in 1..(k - 1) : p[j] = r[j]
      BY <1>1, <2>1, <2>2, <2>3
    <3> QED BY <3>1, <3>2, <3>3 DEF Earlier
  <2>4. CASE l < k
    <3>1. l \in DOMAIN p \cap DOMAIN r
      BY <1>1, <2>4
    <3>2. p[l] < r[l]
      <4>1. p[l] = q[l]
        <5>1. l \in 1..(k - 1)
          BY <1>1, <2>4
        <5> QED BY <2>1, <5>1
      <4> QED BY <2>2, <4>1
    <3>3. \A j \in 1..(l - 1) : p[j] = r[j]
      BY <1>1, <2>1, <2>2, <2>4
    <3> QED BY <3>1, <3>2, <3>3 DEF Earlier
  <2> QED BY <1>1, <2>3, <2>4
<1> QED BY <1>2, <1>3

LEMMA NotEarlierThanItself ==
  ASSUME NEW p \in Seq(Int)
  PROVE  ~Earlier(p, p)
BY EarlierIsOrder

LEMMA SurestIs ==
  ASSUME NEW t, NEW some, IsFiniteSet(some), some # {}, \A m \in some : IsMatch(m)
  PROVE  Surest(t, some) \in some
<1> DEFINE Before(n, m) == \/ Confidence(t, n) > Confidence(t, m)
                           \/ Confidence(t, n) = Confidence(t, m) /\ Earlier(n.at, m.at)
           R == {nm \in some \X some : Before(nm[1], nm[2])}
<1>1. \A m \in some : m.confidence \in Int /\ m.at \in Seq(Int)
  <2> TAKE m \in some
  <2>1. PICK structural, excerpt, at, line, c : at \in Seq(Int) /\ line \in Int /\ c \in Int /\
          m = [line |-> line, structural |-> structural, excerpt |-> excerpt, at |-> at, confidence |-> c]
    BY DEF IsMatch
  <2> QED BY <2>1
<1>2. \A m \in some : Confidence(t, m) \in 0..100
  BY <1>1, ConfidenceIs
<1>3. \A n, m \in some : <<n, m>> \in R <=> Before(n, m)
  OBVIOUS
<1>4. \A x \in some : ~Before(x, x)
  <2> TAKE x \in some
  <2>1. ~Earlier(x.at, x.at) /\ Confidence(t, x) \in Int
    <3>1. x.at \in Seq(Int) /\ Confidence(t, x) \in 0..100
      BY <1>1, <1>2
    <3>2. ~Earlier(x.at, x.at)
      BY ONLY <3>1, NotEarlierThanItself
    <3>3. \A c \in 0..100 : c \in Int
      OBVIOUS
    <3> QED BY ONLY <3>1, <3>2, <3>3
  <2> QED BY <2>1
<1>5. ASSUME NEW x \in some, NEW y \in some, NEW z \in some, Before(x, y), Before(y, z) PROVE Before(x, z)
  <2>1. Earlier(x.at, y.at) /\ Earlier(y.at, z.at) => Earlier(x.at, z.at)
    BY <1>1, EarlierIsOrder
  <2> QED BY <1>2, <1>5, <2>1
<1> HIDE DEF R, Before
<1>6. \E m \in some : \A n \in some : <<n, m>> \notin R
  <2>1. \A x, y, z \in some : <<x, y>> \in R /\ <<y, z>> \in R => <<x, z>> \in R
    BY <1>3, <1>5
  <2>2. \A x \in some : <<x, x>> \notin R
    BY <1>3, <1>4
  <2> QED BY <2>1, <2>2, FirstExists
<1>7. PICK m \in some : \A n \in some : ~Before(n, m)
  BY <1>3, <1>6
<1>8. \A n \in some : \/ Confidence(t, m) > Confidence(t, n)
                      \/ Confidence(t, m) = Confidence(t, n) /\ ~Earlier(n.at, m.at)
  BY <1>2, <1>7 DEF Before
<1> QED BY <1>8 DEF Surest

\* What a rule finds in a target: finitely much, each as sure as the threshold asks.
LEMMA EvaluateIs ==
  ASSUME NEW r, IsRule(r), NEW nth, NEW t, IsSeq(t.text)
  PROVE  /\ IsFiniteSet(Evaluate(r, nth, t))
         /\ \A f \in Evaluate(r, nth, t) : f.confidence \in EmitThreshold..100 /\ f.severity = r.severity
<1> DEFINE all == Eval(r.match, r.confidence, t.text)
           sure == {m \in all : /\ Confidence(t, m) >= EmitThreshold
                                /\ m.line \in DOMAIN t.text => ~Suppressed(r, t.text[m.line])}
           of(m) == {n \in sure : n.line = m.line}
           found(m) == FindingAt(r, nth, t, Surest(t, of(m)))
<1>1. IsFiniteSet(all) /\ \A m \in all : IsMatch(m)
  BY EvalIs DEF IsRule
<1>2. Evaluate(r, nth, t) = {found(m) : m \in sure}
  BY DEF Evaluate
<1>3. IsFiniteSet(sure) /\ \A m \in sure : IsMatch(m) /\ Confidence(t, m) >= EmitThreshold
  <2>1. sure \subseteq all
    OBVIOUS
  <2> HIDE DEF all
  <2> QED BY <1>1, <2>1, FS_Subset
<1> HIDE DEF sure, all
<1>4. \A m \in sure : Surest(t, of(m)) \in sure
  <2> TAKE m \in sure
  <2>1. of(m) \subseteq sure /\ m \in of(m)
    OBVIOUS
  <2> HIDE DEF of
  <2>2. IsFiniteSet(of(m)) /\ \A n \in of(m) : IsMatch(n)
    BY <1>3, <2>1, FS_Subset
  <2>3. Surest(t, of(m)) \in of(m)
    BY <2>1, <2>2, SurestIs
  <2> QED BY <2>1, <2>3
<1>5. \A m \in sure : Confidence(t, m) \in EmitThreshold..100
  <2> TAKE m \in sure
  <2>1. PICK structural, excerpt, at, line, c : at \in Seq(Int) /\ line \in Int /\ c \in Int /\
          m = [line |-> line, structural |-> structural, excerpt |-> excerpt, at |-> at, confidence |-> c]
    BY <1>3 DEF IsMatch
  <2>2. Confidence(t, m) \in 0..100
    BY <2>1, ConfidenceIs
  <2> QED BY <1>3, <2>2 DEF EmitThreshold
<1>6. \A m : FindingAt(r, nth, t, m).confidence = Confidence(t, m) /\ FindingAt(r, nth, t, m).severity = r.severity
  BY DEF FindingAt
<1>7. IsFiniteSet({found(m) : m \in sure})
  <2>1. PICK g : g = [m \in sure |-> found(m)]
    OBVIOUS
  <2>2. {found(m) : m \in sure} = {g[m] : m \in sure}
    BY <2>1
  <2> QED BY <1>3, <2>2, ImageIsFinite
<1> QED BY <1>2, <1>4, <1>5, <1>6, <1>7

-----------------------------------------------------------------------------
(* Sums over finite sets, as the scanner's score is one.                    *)

Some(s) == CHOOSE x \in s : TRUE
Totals(sum, w, S) == sum = [s \in SUBSET S |-> IF s = {} THEN 0 ELSE w[Some(s)] + sum[s \ {Some(s)}]]

\* A sum over a finite set can be made, in some order.
LEMMA TotalsExist ==
  ASSUME NEW S, IsFiniteSet(S), NEW w \in [S -> Nat]
  PROVE  \E sum : Totals(sum, w, S)
<1> DEFINE value(f, s) == IF s = {} THEN 0 ELSE w[Some(s)] + f[s \ {Some(s)}]
           Upto(n) == {s \in SUBSET S : Cardinality(s) <= n}
           Good(f, n) == \A s \in Upto(n) : f[s] = value(f, s)
           P == {n \in Nat : \E f : Good(f, n)}
<1>1. \A s \in SUBSET S : IsFiniteSet(s) /\ Cardinality(s) \in Nat /\ (Cardinality(s) = 0 <=> s = {})
  BY FS_Subset, FS_CardinalityType, FS_EmptySet
<1>2. \A s \in SUBSET S : s # {} => Some(s) \in s
  BY DEF Some
<1>3. \A s \in SUBSET S : s # {} => s \ {Some(s)} \in SUBSET S /\ Cardinality(s \ {Some(s)}) = Cardinality(s) - 1
  <2> TAKE s \in SUBSET S
  <2> HAVE s # {}
  <2>1. PICK x \in s : x = Some(s)
    BY <1>2
  <2>2. IsFiniteSet(s)
    BY <1>1
  <2>3. Cardinality(s \ {x}) = Cardinality(s) - 1
    BY <2>1, <2>2, FS_RemoveElement
  <2> QED BY <2>1, <2>3
<1>4. 0 \in P
  <2>1. PICK f : f = [s \in SUBSET S |-> 0]
    OBVIOUS
  <2>2. \A s \in Upto(0) : s = {}
    BY <1>1
  <2>3. Good(f, 0)
    BY <2>1, <2>2
  <2> QED BY <2>3
<1>5. ASSUME NEW n \in Nat, n \in P PROVE n + 1 \in P
  <2>1. PICK f : Good(f, n)
    BY <1>5
  <2>2. PICK g : g = [s \in SUBSET S |-> IF s \in Upto(n) THEN f[s] ELSE value(f, s)]
    OBVIOUS
  <2>3. \A s \in Upto(n + 1) : s # {} => s \ {Some(s)} \in Upto(n)
    BY <1>1, <1>3
  <2>4. \A s \in SUBSET S : g[s] = value(f, s)
    BY <2>1, <2>2
  <2>5. \A s \in Upto(n) : g[s] = f[s]
    BY <2>2
  <2>6. \A s \in Upto(n + 1) : value(f, s) = value(g, s)
    BY <2>3, <2>5
  <2>7. Good(g, n + 1)
    <3> HIDE DEF value
    <3> QED BY <2>4, <2>6
  <2> HIDE DEF Good
  <2> QED BY <2>7
<1>6. Cardinality(S) \in P
  <2> HIDE DEF P
  <2> QED BY <1>1, <1>4, <1>5, ByInduction
<1>7. PICK f : Good(f, Cardinality(S))
  BY <1>6
<1>8. \A s \in SUBSET S : s \in Upto(Cardinality(S))
  <2> TAKE s \in SUBSET S
  <2>1. Cardinality(s) <= Cardinality(S)
    BY FS_Subset
  <2> QED BY <2>1
<1>9. PICK g : g = [s \in SUBSET S |-> f[s]]
  OBVIOUS
<1>10. \A s \in SUBSET S : value(f, s) = value(g, s)
  BY <1>3, <1>9
<1>11. \A s \in SUBSET S : g[s] = value(g, s)
  <2> HIDE DEF value, Upto
  <2> QED BY <1>7, <1>8, <1>9, <1>10
<1>12. g = [s \in SUBSET S |-> value(g, s)]
  <2> HIDE DEF value
  <2> QED BY <1>9, <1>11
<1> QED BY <1>12 DEF Totals

\* In whatever order: each member can be the one that is added last.
Sums(sum, w, S) ==
  /\ sum[{}] = 0
  /\ \A s \in SUBSET S : sum[s] \in Nat /\ \A x \in s : sum[s] = w[x] + sum[s \ {x}]

LEMMA TotalsAreSums ==
  ASSUME NEW S, IsFiniteSet(S), NEW w \in [S -> Nat], NEW sum, Totals(sum, w, S)
  PROVE  Sums(sum, w, S)
<1> DEFINE Good(s) == sum[s] \in Nat /\ \A x \in s : sum[s] = w[x] + sum[s \ {x}]
           P == {n \in Nat : \A s \in SUBSET S : Cardinality(s) <= n => Good(s)}
<1>1. \A s \in SUBSET S : IsFiniteSet(s) /\ Cardinality(s) \in Nat /\ (Cardinality(s) = 0 <=> s = {})
  BY FS_Subset, FS_CardinalityType, FS_EmptySet
<1>2. \A s \in SUBSET S : \A x \in s : Cardinality(s \ {x}) = Cardinality(s) - 1
  BY <1>1, FS_RemoveElement
<1>3. sum[{}] = 0
  BY DEF Totals
<1>4. 0 \in P
  BY <1>1, <1>3
<1>5. ASSUME NEW n \in Nat, n \in P PROVE n + 1 \in P
  <2>1. \A s \in SUBSET S : Cardinality(s) <= n => Good(s)
    BY <1>5
  <2> SUFFICES ASSUME NEW s \in SUBSET S, s # {}, Cardinality(s) <= n + 1 PROVE Good(s)
    BY <1>3
  <2>2. PICK c \in s : c = Some(s)
    BY DEF Some
  <2>3. sum[s] = w[c] + sum[s \ {c}]
    BY <2>2 DEF Totals
  <2>4. \A x \in s : s \ {x} \in SUBSET S /\ Good(s \ {x})
    <3> TAKE x \in s
    <3>1. s \ {x} \in SUBSET S /\ Cardinality(s \ {x}) <= n
      BY <1>1, <1>2
    <3> QED BY <2>1, <3>1
  <2>5. \A x \in s : w[x] \in Nat
    OBVIOUS
  <2>6. sum[s] \in Nat
    <3>1. sum[s \ {c}] \in Nat
      BY <2>4
    <3> QED BY <2>3, <2>5, <3>1
  <2>7. ASSUME NEW x \in s, x # c PROVE sum[s] = w[x] + sum[s \ {x}]
    <3>1. x \in s \ {c} /\ c \in s \ {x} /\ (s \ {c}) \ {x} = (s \ {x}) \ {c}
      BY <2>7
    <3>2. PICK rest : rest = (s \ {x}) \ {c}
      OBVIOUS
    <3>3. sum[s \ {c}] = w[x] + sum[rest] /\ sum[s \ {x}] = w[c] + sum[rest]
      BY <2>4, <3>1, <3>2
    <3>4. sum[rest] \in Nat
      <4>1. rest \in SUBSET S /\ Cardinality(rest) <= n
        <5>1. s \ {x} \in SUBSET S /\ Cardinality(s \ {x}) = Cardinality(s) - 1
          BY <1>2
        <5>2. rest \in SUBSET S /\ Cardinality(rest) = Cardinality(s \ {x}) - 1
          BY <1>2, <3>1, <3>2, <5>1
        <5>3. Cardinality(s) \in Nat
          BY <1>1
        <5> QED BY <5>1, <5>2, <5>3
      <4> QED BY <2>1, <4>1
    <3> QED BY <2>3, <2>5, <3>3, <3>4
  <2> QED BY <2>3, <2>6, <2>7
<1> QED
  <2>1. \A n \in Nat : n \in P
    <3> HIDE DEF P
    <3> QED BY <1>4, <1>5, ByInduction
  <2>2. \A s \in SUBSET S : Good(s)
    <3> TAKE s \in SUBSET S
    <3>1. Cardinality(s) \in Nat /\ Cardinality(s) <= Cardinality(s)
      BY <1>1
    <3> HIDE DEF Good
    <3> QED BY <2>1, <3>1
  <2> QED BY <1>3, <2>2 DEF Sums

\* A sum over the images of one to one does not fall when no weight does.
LEMMA SumsGrow ==
  ASSUME NEW S, IsFiniteSet(S), NEW w \in [S -> Nat], NEW a, Sums(a, w, S),
         NEW T, NEW v \in [T -> Nat], NEW b, Sums(b, v, T),
         NEW u \in [S -> T], \A x, y \in S : u[x] = u[y] => x = y,
         \A x \in S : w[x] <= v[u[x]]
  PROVE  a[S] <= b[{u[x] : x \in S}]
<1> DEFINE image(s) == {u[x] : x \in s}
           P == {n \in Nat : \A s \in SUBSET S : Cardinality(s) = n => a[s] <= b[image(s)]}
<1>1. \A s \in SUBSET S : IsFiniteSet(s) /\ Cardinality(s) \in Nat /\ (Cardinality(s) = 0 <=> s = {})
  BY FS_Subset, FS_CardinalityType, FS_EmptySet
<1>2. 0 \in P
  <2>1. image({}) = {}
    OBVIOUS
  <2>2. a[{}] <= b[image({})]
    <3> HIDE DEF image
    <3> QED BY <2>1 DEF Sums
  <2>3. \A s \in SUBSET S : Cardinality(s) = 0 => s = {}
    BY <1>1
  <2> HIDE DEF image
  <2> QED BY <2>2, <2>3
<1>3. ASSUME NEW n \in Nat, n \in P PROVE n + 1 \in P
  <2> SUFFICES ASSUME NEW s \in SUBSET S, Cardinality(s) = n + 1 PROVE a[s] <= b[image(s)]
    OBVIOUS
  <2>1. PICK x \in s : TRUE
    BY <1>1
  <2>2. PICK rest : rest = s \ {x}
    OBVIOUS
  <2>3. rest \in SUBSET S /\ Cardinality(rest) = n
    <3>1. IsFiniteSet(s)
      BY <1>1
    <3>2. Cardinality(s \ {x}) = Cardinality(s) - 1
      BY <2>1, <3>1, FS_RemoveElement
    <3> QED BY <2>2, <3>2
  <2>4. a[rest] <= b[image(rest)]
    BY <1>3, <2>3
  <2>5. image(s) \ {u[x]} = image(rest) /\ u[x] \in image(s) /\ image(s) \in SUBSET T /\ image(rest) \in SUBSET T
    BY <2>1, <2>2
  <2>6. a[s] = w[x] + a[rest] /\ a[rest] \in Nat
    BY <2>1, <2>2, <2>3 DEF Sums
  <2>7. b[image(s)] = v[u[x]] + b[image(rest)] /\ b[image(rest)] \in Nat
    <3> HIDE DEF image
    <3> QED BY <2>5 DEF Sums
  <2>8. w[x] \in Nat /\ v[u[x]] \in Nat /\ w[x] <= v[u[x]]
    BY <2>1
  <2> HIDE DEF image
  <2> QED BY <2>4, <2>6, <2>7, <2>8
<1>4. Cardinality(S) \in P
  <2> HIDE DEF P
  <2> QED BY <1>1, <1>2, <1>3, ByInduction
<1> QED BY <1>4

Weight(f) == Points[f.severity] * f.confidence
ScoreOf(n) == (Min({n, 10000}) + 50) \div 100

\* What the score is of.
LEMMA ScoreIs ==
  ASSUME NEW some, IsFiniteSet(some), NEW w, w = [f \in some |-> Weight(f)], w \in [some -> Nat]
  PROVE  \E sum : Sums(sum, w, some) /\ RiskScore(some) = ScoreOf(sum[some])
<1> DEFINE E(g) == [s \in SUBSET some |-> IF s = {} THEN 0 ELSE Weight(Some(s)) + g[s \ {Some(s)}]]
<1>1. \A g : E(g) = [s \in SUBSET some |-> IF s = {} THEN 0 ELSE w[Some(s)] + g[s \ {Some(s)}]]
  <2> TAKE g
  <2>1. \A s \in SUBSET some : s # {} => Weight(Some(s)) = w[Some(s)]
    BY DEF Some
  <2> HIDE DEF Some, Weight
  <2> QED BY <2>1
<1>2. \A g : g = E(g) <=> Totals(g, w, some)
  <2> HIDE DEF E
  <2> QED BY <1>1 DEF Totals
<1>3. PICK sum : sum = CHOOSE g : g = E(g)
  OBVIOUS
<1>4. Totals(sum, w, some)
  <2> HIDE DEF E
  <2> QED BY <1>2, <1>3, TotalsExist
<1>5. RiskScore(some) = ScoreOf(sum[some])
  BY <1>3 DEF ScoreOf, RiskScore, MapThenSumSet, MapThenFoldSet, Weight, Some
<1>6. Sums(sum, w, some)
  BY <1>4, TotalsAreSums
<1> QED BY <1>5, <1>6

LEMMA ScoreGrows ==
  ASSUME NEW m \in Nat, NEW n \in Nat, m <= n
  PROVE  ScoreOf(m) <= ScoreOf(n)
<1>1. Min({m, 10000}) = IF m <= 10000 THEN m ELSE 10000
  BY MinOfTwo
<1>2. Min({n, 10000}) = IF n <= 10000 THEN n ELSE 10000
  BY MinOfTwo
<1>3. PICK k, l : k = Min({m, 10000}) /\ l = Min({n, 10000})
  OBVIOUS
<1>4. k \in Nat /\ l \in Nat /\ k <= l
  BY <1>1, <1>2, <1>3
<1>5. (k + 50) \div 100 <= (l + 50) \div 100
  BY ONLY <1>4
<1> QED BY <1>3, <1>5 DEF ScoreOf

LEMMA PointsAre ==
  /\ \A s \in Info..Critical : Points[s] \in Nat
  /\ \A s, t \in Info..Critical : s <= t => Points[s] <= Points[t]
<1>1. Info..Critical = {0, 1, 2, 3, 4}
  BY DEF Info, Critical
<1>2. Points[0] = 0 /\ Points[1] = 1 /\ Points[2] = 5 /\ Points[3] = 15 /\ Points[4] = 40
  BY <1>1 DEF Points, Info, Low, Medium, High, Critical
<1> HIDE DEF Points
<1> QED BY <1>1, <1>2

\* A finding lowered weighs no more.
LEMMA LoweredWeighsLess ==
  ASSUME NEW f, NEW h, f.severity \in Info..Critical, h.severity \in Info..Critical, f.severity <= h.severity,
         h.confidence \in 0..100, f.confidence = h.confidence
  PROVE  Weight(f) \in Nat /\ Weight(h) \in Nat /\ Weight(f) <= Weight(h)
<1>1. PICK p, q, c : p = Points[f.severity] /\ q = Points[h.severity] /\ c = h.confidence
  OBVIOUS
<1>2. p \in Nat /\ q \in Nat /\ c \in Nat /\ p <= q
  BY <1>1, PointsAre
<1>3. p * c \in Nat /\ q * c \in Nat /\ p * c <= q * c
  BY ONLY <1>2
<1> QED BY <1>1, <1>3 DEF Weight

LEMMA LoweredScoresLess ==
  ASSUME NEW high, IsFiniteSet(high), NEW u, \A x, y \in high : u[x] = u[y] => x = y,
         \A h \in high : /\ h.severity \in Info..Critical /\ h.confidence \in 0..100
                         /\ u[h].severity \in Info..h.severity /\ u[h].confidence = h.confidence
  PROVE  RiskScore({u[h] : h \in high}) <= RiskScore(high)
<1>1. PICK low : low = {u[h] : h \in high}
  OBVIOUS
<1>2. IsFiniteSet(low)
  BY <1>1, ImageIsFinite
<1>3. PICK w, v : w = [f \in low |-> Weight(f)] /\ v = [f \in high |-> Weight(f)]
  OBVIOUS
<1>4. \A h \in high : Weight(u[h]) \in Nat /\ Weight(h) \in Nat /\ Weight(u[h]) <= Weight(h)
  <2> TAKE h \in high
  <2>1. u[h].severity \in Info..Critical /\ u[h].severity <= h.severity
    BY DEF Info, Critical
  <2> QED BY <2>1, LoweredWeighsLess
<1>5. w \in [low -> Nat] /\ v \in [high -> Nat]
  BY <1>1, <1>3, <1>4
<1>6. PICK a : Sums(a, w, low) /\ RiskScore(low) = ScoreOf(a[low])
  BY <1>2, <1>3, <1>5, ScoreIs
<1>7. PICK b : Sums(b, v, high) /\ RiskScore(high) = ScoreOf(b[high])
  BY <1>3, <1>5, ScoreIs
<1>8. PICK up : up = [f \in low |-> CHOOSE h \in high : u[h] = f]
  OBVIOUS
<1>9. \A f \in low : up[f] \in high /\ u[up[f]] = f
  BY <1>1, <1>8
<1>10. \A h \in high : u[h] \in low /\ up[u[h]] = h
  BY <1>1, <1>9
<1>11. {up[f] : f \in low} = high /\ up \in [low -> high] /\ \A f, g \in low : up[f] = up[g] => f = g
  BY <1>8, <1>9, <1>10
<1>12. \A f \in low : w[f] <= v[up[f]]
  BY <1>3, <1>4, <1>9
<1>13. a[low] <= b[high]
  <2>1. a[low] <= b[{up[f] : f \in low}]
    <3>1. Sums(a, w, low) /\ Sums(b, v, high)
      BY <1>6, <1>7
    <3>2. up \in [low -> high] /\ \A f, g \in low : up[f] = up[g] => f = g
      BY <1>11
    <3> QED BY ONLY <1>2, <1>5, <1>12, <3>1, <3>2, SumsGrow
  <2> QED BY <1>11, <2>1
<1>14. a[low] \in Nat /\ b[high] \in Nat
  <2>1. low \in SUBSET low /\ high \in SUBSET high
    OBVIOUS
  <2> QED BY <1>6, <1>7, <2>1 DEF Sums
<1>15. ScoreOf(a[low]) <= ScoreOf(b[high])
  BY <1>13, <1>14, ScoreGrows
<1> QED BY <1>1, <1>6, <1>7, <1>15

\* What a scan reads and what it finds is finite.
LEMMA TargetsAreFinite ==
  ASSUME NEW w, IsFiniteSet(DOMAIN w), \A p \in DOMAIN w : IsSeq(w[p].text), SkillMD \in Files(w)
  PROVE  /\ IsFiniteSet(Targets(LoadBundle(w)))
         /\ \A t \in Targets(LoadBundle(w)) : IsSeq(t.text)
<1>1. PICK sk : sk = ParseSkillMD(w[SkillMD].text)
  OBVIOUS
<1>2. Targets(LoadBundle(w)) = SkillTargets(sk) \cup {FileTarget(w, p) : p \in Scannable(w)}
  BY <1>1, TargetsAre
<1>3. Scannable(w) \subseteq DOMAIN w /\ SkillMD \in DOMAIN w
  BY DEF Scannable, Files, Walked
<1>4. IsFiniteSet({FileTarget(w, p) : p \in Scannable(w)})
  <2>1. PICK g : g = [p \in Scannable(w) |-> FileTarget(w, p)]
    OBVIOUS
  <2>2. {FileTarget(w, p) : p \in Scannable(w)} = {g[p] : p \in Scannable(w)}
    BY <2>1
  <2>3. IsFiniteSet(Scannable(w))
    BY <1>3, FS_Subset
  <2> QED BY <2>2, <2>3, ImageIsFinite
<1>5. PICK manifest, body : /\ manifest = Target("manifest", "", SkillMD, sk.front, sk.frontOffset)
                            /\ body = Target("body", "", SkillMD, sk.body, sk.bodyOffset)
  OBVIOUS
<1>6. SkillTargets(sk) = (IF sk.present THEN {manifest} ELSE {}) \cup {body}
  BY <1>5 DEF SkillTargets
<1>7. IsFiniteSet(SkillTargets(sk))
  <2>1. IsFiniteSet({body}) /\ IsFiniteSet({manifest}) /\ IsFiniteSet({})
    BY FS_Singleton, FS_EmptySet
  <2>2. IsFiniteSet({manifest} \cup {body}) /\ IsFiniteSet({} \cup {body})
    BY <2>1, FS_Union
  <2> QED BY <1>6, <2>2
<1>8. \A t \in SkillTargets(sk) : IsSeq(t.text)
  <2>1. manifest.text = sk.front /\ body.text = sk.body
    BY <1>5 DEF Target
  <2>2. PICK text, S : text = w[SkillMD].text /\ S = ToSet(text)
    OBVIOUS
  <2>3. text \in Seq(S)
    BY <1>3, <2>2 DEF IsSeq
  <2>4. CASE Undivided(sk, text)
    <3>1. ~sk.present /\ sk.body = text
      BY <2>4 DEF Undivided
    <3> QED BY <1>6, <2>1, <2>3, <3>1, SeqOfItself
  <2>5. CASE \E end \in 3..Len(text) : Split(sk, S, text, end)
    <3>1. sk.front \in Seq(S) /\ sk.body \in Seq(S)
      BY <2>5 DEF Split
    <3>2. IsSeq(sk.front) /\ IsSeq(sk.body)
      BY <3>1, SeqOfItself
    <3> QED BY <1>6, <2>1, <3>2
  <2> QED BY <1>1, <2>2, <2>3, <2>4, <2>5, ParsedIs
<1>9. \A p \in Scannable(w) : FileTarget(w, p).text = w[p].text
  BY DEF FileTarget, Target
<1>10. IsFiniteSet(Targets(LoadBundle(w)))
  BY <1>2, <1>4, <1>7, FS_Union
<1>11. \A t \in Targets(LoadBundle(w)) : IsSeq(t.text)
  BY <1>2, <1>3, <1>8, <1>9
<1> QED BY <1>10, <1>11

LEMMA HitsAreFinite ==
  ASSUME NEW rules, IsSeq(rules), \A i \in DOMAIN rules : IsRule(rules[i]),
         NEW targets, IsFiniteSet(targets), \A t \in targets : IsSeq(t.text)
  PROVE  /\ IsFiniteSet(Hits(rules, targets))
         /\ \A h \in Hits(rules, targets) : h.severity \in Info..Critical /\ h.confidence \in 0..100
<1> DEFINE pairs == {nt \in (DOMAIN rules) \X targets : AppliesTo(rules[nt[1]], nt[2])}
           found(nt) == Evaluate(rules[nt[1]], nt[1], nt[2])
<1>1. \A nt \in pairs : IsRule(rules[nt[1]]) /\ IsSeq(nt[2].text)
  OBVIOUS
<1>2. IsFiniteSet(pairs)
  <2>1. Len(rules) \in Nat /\ DOMAIN rules = 1..Len(rules)
    BY DEF IsSeq
  <2>2. IsFiniteSet(DOMAIN rules)
    BY <2>1, FS_Interval
  <2>3. IsFiniteSet((DOMAIN rules) \X targets)
    BY <2>2, FS_Product
  <2> QED BY <2>3, FS_Subset
<1>3. Hits(rules, targets) = UNION {found(nt) : nt \in pairs}
  BY DEF Hits
<1> HIDE DEF pairs
<1>4. \A nt \in pairs : /\ IsFiniteSet(found(nt))
                        /\ \A f \in found(nt) : f.confidence \in EmitThreshold..100 /\ f.severity = rules[nt[1]].severity
  BY <1>1, EvaluateIs
<1> HIDE DEF found
<1>5. IsFiniteSet({found(nt) : nt \in pairs})
  <2>1. PICK g : g = [nt \in pairs |-> found(nt)]
    OBVIOUS
  <2>2. {found(nt) : nt \in pairs} = {g[nt] : nt \in pairs}
    BY <2>1
  <2> QED BY <1>2, <2>2, ImageIsFinite
<1>6. IsFiniteSet(Hits(rules, targets))
  <2>1. \A T \in {found(nt) : nt \in pairs} : IsFiniteSet(T)
    BY <1>4
  <2> QED BY <1>3, <1>5, <2>1, FS_UNION
<1>7. ASSUME NEW h \in Hits(rules, targets)
      PROVE  h.severity \in Info..Critical /\ h.confidence \in 0..100
  <2>1. PICK nt \in pairs : h \in found(nt)
    BY <1>3
  <2>2. h.confidence \in EmitThreshold..100 /\ h.severity = rules[nt[1]].severity /\ IsRule(rules[nt[1]])
    BY <1>1, <1>4, <2>1
  <2> QED BY <2>2 DEF IsRule, EmitThreshold
<1> QED BY <1>6, <1>7

LEMMA CapLowers ==
  ASSUME NEW contexts, \A c \in contexts : IsContext(c), NEW targets,
         NEW h, "severity" \in DOMAIN h, h.severity \in Info..Critical
  PROVE  ApplyCaps(ContextCaps(contexts, targets), h).severity \in Info..h.severity
<1> DEFINE caps == ContextCaps(contexts, targets)
           over == {cap \in caps : /\ cap.file = h.file
                                   /\ {0, h.line} \cap cap.lines # {}
                                   /\ cap.layers = {} \/ h.layer \in cap.layers}
           ceilings == {cap.max : cap \in over}
<1>1. \A cap \in caps : cap.max \in Info..Critical
  <2> TAKE cap \in caps
  <2>1. PICK ct \in contexts \X targets :
          cap = [max |-> ct[1].max, layers |-> ct[1].layers, file |-> ct[2].file, lines |-> Spans(ct[1], ct[2])]
    BY DEF ContextCaps
  <2>2. ct[1] \in contexts
    BY <2>1
  <2> QED BY <2>1, <2>2 DEF IsContext
<1> HIDE DEF caps
<1>2. ceilings \subseteq Info..Critical
  BY <1>1
<1>3. ApplyCaps(caps, h) = IF ceilings = {} \/ h.severity <= Min(ceilings) THEN h
                           ELSE [h EXCEPT !.severity = Min(ceilings)]
  BY DEF ApplyCaps
<1> HIDE DEF ceilings
<1>4. ApplyCaps(caps, h).severity \in Info..h.severity
  <2>1. CASE ceilings = {} \/ h.severity <= Min(ceilings)
    BY <1>3, <2>1 DEF Info, Critical
  <2>2. CASE ceilings # {} /\ ~(h.severity <= Min(ceilings))
    <3>1. ceilings \subseteq Nat
      BY <1>2 DEF Info
    <3>2. PICK m : m = Min(ceilings)
      OBVIOUS
    <3>3. m \in ceilings
      BY <2>2, <3>1, <3>2, MinIs
    <3>4. m \in Info..Critical /\ ~(h.severity <= m)
      BY <1>2, <2>2, <3>2, <3>3
    <3>5. ApplyCaps(caps, h) = [h EXCEPT !.severity = m]
      BY <1>3, <2>2, <3>2
    <3>6. ApplyCaps(caps, h).severity = m
      BY <3>5
    <3> QED BY <3>4, <3>6 DEF Info, Critical
  <2> QED BY <2>1, <2>2
<1> QED BY <1>4 DEF caps

LEMMA VerdictFalls ==
  ASSUME NEW high, NEW u, \A h \in high : h.severity \in Int /\ u[h].severity \in Int /\ u[h].severity <= h.severity
  PROVE  Rank[Verdict({u[h] : h \in high}, Policy)] <= Rank[Verdict(high, Policy)]
<1> DEFINE low == {u[h] : h \in high}
           Reaches(some, level) == \E f \in some : f.severity >= level
<1>1. Policy.failOn \in Int /\ Policy.warnOn \in Int
  BY PolicyIsTyped
<1>2. Reaches(low, Policy.failOn) => Reaches(high, Policy.failOn)
  BY <1>1
<1>3. Reaches(low, Policy.warnOn) => Reaches(high, Policy.warnOn)
  BY <1>1
<1>4. \A some : Verdict(some, Policy) = IF Reaches(some, Policy.failOn) THEN "fail"
                                        ELSE IF Reaches(some, Policy.warnOn) THEN "warn" ELSE "pass"
  BY DEF Verdict
<1>5. Rank["pass"] = 0 /\ Rank["warn"] = 1 /\ Rank["fail"] = 2
  BY DEF Rank
<1> HIDE DEF low, Reaches
<1>6. Rank[Verdict(low, Policy)] <= Rank[Verdict(high, Policy)]
  BY <1>2, <1>3, <1>4, <1>5
<1> QED BY <1>6 DEF low

\* Context rules never erase a finding: with them the same findings are reported
\* and waived, equally sure, none of them more severe, and neither the verdict
\* nor the score is higher. (scan.go:125-250, context.go)
THEOREM CapsLowerAndNothingElse == Spec => []CapsNeverErase
<1>1. ASSUME TextsOK, RulesetOK PROVE CapsNeverErase
  <2> SUFFICES ASSUME Loads(dir),
                      NEW capped, capped = Scan(Loaded, Rules, Contexts, Policy),
                      NEW bare, bare = Scan(Loaded, Rules, {}, Policy)
               PROVE  /\ {Uncap(f) : f \in capped.findings} = bare.findings
                      /\ {Uncap(f) : f \in capped.waived} = bare.waived
                      /\ \A f \in capped.findings : f.severity <= f.original
                      /\ Rank[capped.verdict] <= Rank[bare.verdict]
                      /\ capped.score <= bare.score
    BY DEF CapsNeverErase, Uncap
  <2> DEFINE targets == Targets(Loaded)
             hits == Hits(Rules, targets)
             all == Unlowered(Rules, Loaded)
             out == {h \in all : Out(h, Loaded, Policy)}
             in == {h \in all : ~Out(h, Loaded, Policy)}
             low(h) == Lowered(Contexts, Loaded, h)
  <2>1. /\ IsFiniteSet(hits)
        /\ \A h \in hits : h.severity \in Info..Critical /\ h.confidence \in 0..100
    <3>1. IsFiniteSet(targets) /\ \A t \in targets : IsSeq(t.text)
      BY <1>1, TargetsAreFinite DEF TextsOK, Loads, Loaded
    <3> HIDE DEF targets
    <3> QED BY <1>1, <3>1, HitsAreFinite DEF RulesetOK, Rules
  <2>2. all \subseteq hits
    BY DEF Unlowered, Dedup
  <2>3. \A h \in all : /\ Uncap(low(h)) = h /\ h.severity = h.original
                       /\ low(h).confidence = h.confidence /\ low(h).original = h.original
    <3> TAKE h \in all
    <3>1. h \in hits
      BY <2>2
    <3> QED BY <3>1, CapIsUndone DEF Lowered
  <2>4. \A h \in all : Lowered({}, Loaded, h) = h
    <3>1. ContextCaps({}, targets) = {}
      BY DEF ContextCaps
    <3>2. \A h : ApplyCaps({}, h) = h
      BY DEF ApplyCaps
    <3> QED BY <3>1, <3>2 DEF Lowered
  <2>5. \A h \in all : low(h).severity \in Info..h.severity
    <3> TAKE h \in all
    <3>1. h \in hits /\ h.severity \in Info..Critical
      BY <2>1, <2>2
    <3>2. "severity" \in DOMAIN h
      <4>1. PICK n, t : h \in Evaluate(Rules[n], n, t)
        BY <3>1, HitsAre
      <4>2. PICK m : h = FindingAt(Rules[n], n, t, m)
        BY <4>1, EvaluateGives
      <4> QED BY <4>2 DEF FindingAt
    <3>3. \A c \in Contexts : IsContext(c)
      BY <1>1 DEF RulesetOK, Contexts
    <3> QED BY <3>1, <3>2, <3>3, CapLowers DEF Lowered
  <2>6. /\ capped.findings = {low(h) : h \in in} /\ capped.waived = {low(h) : h \in out}
        /\ capped.verdict = Verdict(capped.findings, Policy) /\ capped.score = RiskScore(capped.findings)
    BY ScanIs
  <2>7. /\ bare.findings = in /\ bare.waived = out
        /\ bare.verdict = Verdict(bare.findings, Policy) /\ bare.score = RiskScore(bare.findings)
    <3>1. /\ bare.findings = {Lowered({}, Loaded, h) : h \in in} /\ bare.waived = {Lowered({}, Loaded, h) : h \in out}
          /\ bare.verdict = Verdict(bare.findings, Policy) /\ bare.score = RiskScore(bare.findings)
      BY ScanIs
    <3>2. {Lowered({}, Loaded, h) : h \in in} = in /\ {Lowered({}, Loaded, h) : h \in out} = out
      BY <2>4
    <3> QED BY <3>1, <3>2
  <2>8. in \subseteq all /\ out \subseteq all
    OBVIOUS
  <2> HIDE DEF in, out, all, low, hits, targets
  <2>9. {Uncap(f) : f \in capped.findings} = bare.findings /\ {Uncap(f) : f \in capped.waived} = bare.waived
    <3>1. \A h \in in : Uncap(low(h)) = h
      BY <2>3, <2>8
    <3>2. \A h \in out : Uncap(low(h)) = h
      BY <2>3, <2>8
    <3>3. {Uncap(f) : f \in {low(h) : h \in in}} = in
      BY <3>1
    <3>4. {Uncap(f) : f \in {low(h) : h \in out}} = out
      BY <3>2
    <3> QED BY <2>6, <2>7, <3>3, <3>4
  <2>10. \A f \in capped.findings : f.severity <= f.original
    <3> TAKE f \in capped.findings
    <3>1. PICK h \in in : f = low(h)
      BY <2>6
    <3> QED BY <2>3, <2>5, <2>8, <3>1
  <2>11. PICK u : u = [h \in in |-> low(h)]
    OBVIOUS
  <2>12. /\ capped.findings = {u[h] : h \in in}
         /\ \A h \in in : u[h] = low(h)
    BY <2>6, <2>11
  <2>13. IsFiniteSet(in)
    BY <2>1, <2>2, <2>8, FS_Subset
  <2>14. \A h \in in : /\ h.severity \in Info..Critical /\ h.confidence \in 0..100
                       /\ u[h].severity \in Info..h.severity /\ u[h].confidence = h.confidence
    BY <2>1, <2>2, <2>3, <2>5, <2>8, <2>12
  <2>15. \A x, y \in in : u[x] = u[y] => x = y
    BY <2>3, <2>8, <2>12
  <2>16. RiskScore({u[h] : h \in in}) <= RiskScore(in)
    BY ONLY <2>13, <2>14, <2>15, LoweredScoresLess
  <2>17. Rank[Verdict({u[h] : h \in in}, Policy)] <= Rank[Verdict(in, Policy)]
    <3>1. \A h \in in : h.severity \in Int /\ u[h].severity \in Int /\ u[h].severity <= h.severity
      BY <2>14 DEF Info, Critical
    <3> QED BY <3>1, VerdictFalls
  <2> QED BY <2>6, <2>7, <2>9, <2>10, <2>12, <2>16, <2>17
<1>2. Init => TextsOK /\ RulesetOK
  BY TextsInit, RulesetInit
<1>3. (TextsOK /\ RulesetOK) /\ [Next]_vars => (TextsOK /\ RulesetOK)'
  BY TextsStep, RulesetStep
<1>4. TextsOK /\ RulesetOK => CapsNeverErase
  BY <1>1
<1> QED BY <1>2, <1>3, <1>4, PTL DEF Spec

-----------------------------------------------------------------------------
(* The front matter and its leaf: which lines of the one are in the other.  *)

\* Places of the lines that are kept: at[n] of the first n lines are.
Places(at, text, K, kept) ==
  /\ at \in [0..Len(text) -> Nat] /\ at[0] = 0 /\ Len(kept) = at[Len(text)]
  /\ \A n \in 1..Len(text) : at[n] = IF n \in K THEN at[n - 1] + 1 ELSE at[n - 1]
  /\ \A n \in K \cap (1..Len(text)) : kept[at[n]] = text[n]

LEMMA PlacesAre ==
  ASSUME NEW S, NEW text \in Seq(S), NEW K
  PROVE  KeepAt(text, K) \in Seq(S) /\ \E at : Places(at, text, K, KeepAt(text, K))
<1> DEFINE N == Len(text)
<1>1. PICK cut : Cuts(cut, S, text, K) /\ KeepAt(text, K) = cut[N]
  BY KeepAtIs
<1>2. /\ N \in Nat /\ \A n \in 0..N : cut[n] \in Seq(S)
      /\ cut[0] = <<>> /\ \A n \in 1..N : text[n] \in S
  BY <1>1, SeqIs DEF Cuts
<1>3. PICK at : at = [n \in 0..N |-> Len(cut[n])]
  OBVIOUS
<1>4. at \in [0..N -> Nat] /\ at[0] = 0
  <2>1. 0 \in 0..N /\ Len(<<>>) = 0
    BY <1>2
  <2>2. \A n \in 0..N : Len(cut[n]) \in Nat
    BY <1>2, SeqIs
  <2> QED BY <1>2, <1>3, <2>1, <2>2
<1>5. \A n \in 1..N : /\ n \in K => cut[n] = Append(cut[n - 1], text[n])
                      /\ n \notin K => cut[n] = cut[n - 1]
  <2> TAKE n \in 1..N
  <2>1. n - 1 \in 0..N
    BY <1>2
  <2>2. PICK c, x : c = cut[n - 1] /\ x = text[n]
    OBVIOUS
  <2>3. c \in Seq(S) /\ x \in S
    BY <1>2, <2>1, <2>2
  <2>4. c \o <<x>> = Append(c, x) /\ c \o <<>> = c
    BY <2>3, AppendIsConcat, ConcatEmptySeq
  <2>5. cut[n] = c \o (IF n \in K THEN <<x>> ELSE <<>>)
    BY <1>1, <2>2 DEF Cuts
  <2> QED BY <2>2, <2>4, <2>5
<1>6. \A n \in 1..N : at[n] = IF n \in K THEN at[n - 1] + 1 ELSE at[n - 1]
  <2> TAKE n \in 1..N
  <2>1. n \in 0..N /\ n - 1 \in 0..N
    BY <1>2
  <2>2. at[n] = Len(cut[n]) /\ at[n - 1] = Len(cut[n - 1])
    BY <1>3, <2>1
  <2>3. cut[n - 1] \in Seq(S) /\ text[n] \in S
    BY <1>2, <2>1
  <2>4. Len(Append(cut[n - 1], text[n])) = Len(cut[n - 1]) + 1
    BY <2>3, AppendProperties
  <2> QED BY <1>5, <2>2, <2>4
<1>7. \A n \in 0..N : \A m \in K \cap (1..n) : at[m] \in 1..at[n] /\ cut[n][at[m]] = text[m]
  <2> DEFINE P == {n \in Nat : n <= N => \A m \in K \cap (1..n) : at[m] \in 1..at[n] /\ cut[n][at[m]] = text[m]}
  <2>1. 0 \in P
    OBVIOUS
  <2>2. ASSUME NEW n \in Nat, n \in P PROVE n + 1 \in P
    <3> SUFFICES ASSUME n + 1 <= N, NEW m \in K \cap (1..(n + 1))
                 PROVE  at[m] \in 1..at[n + 1] /\ cut[n + 1][at[m]] = text[m]
      OBVIOUS
    <3>1. n + 1 \in 1..N /\ n \in 0..N /\ (n + 1) - 1 = n /\ n + 1 \in 0..N
      BY <1>2
    <3>2. cut[n] \in Seq(S) /\ text[n + 1] \in S /\ at[n] = Len(cut[n]) /\ at[n] \in Nat
      BY <1>2, <1>3, <1>4, <3>1
    <3>3. Append(cut[n], text[n + 1])[at[n] + 1] = text[n + 1]
          /\ \A j \in 1..at[n] : Append(cut[n], text[n + 1])[j] = cut[n][j]
      BY <3>2, AppendProperties
    <3>4. CASE n + 1 \in K
      <4>1. cut[n + 1] = Append(cut[n], text[n + 1]) /\ at[n + 1] = at[n] + 1
        BY <1>5, <1>6, <3>1, <3>4
      <4>2. CASE m = n + 1
        BY <3>2, <3>3, <4>1, <4>2
      <4>3. CASE m \in K \cap (1..n)
        <5>1. at[m] \in 1..at[n] /\ cut[n][at[m]] = text[m]
          BY <2>2, <3>1, <4>3
        <5> QED BY <3>2, <3>3, <4>1, <5>1
      <4>4. m = n + 1 \/ m \in K \cap (1..n)
        OBVIOUS
      <4> QED BY <4>2, <4>3, <4>4
    <3>5. CASE n + 1 \notin K
      <4>1. cut[n + 1] = cut[n] /\ at[n + 1] = at[n] /\ m \in K \cap (1..n)
        BY <1>5, <1>6, <3>1, <3>5
      <4> QED BY <2>2, <3>1, <4>1
    <3> QED BY <3>4, <3>5
  <2>3. Nat \subseteq P
    <3> HIDE DEF P
    <3> QED BY <2>1, <2>2, ByInduction
  <2> QED BY <1>2, <2>3
<1>8. KeepAt(text, K) \in Seq(S) /\ Len(KeepAt(text, K)) = at[N]
  BY <1>1, <1>2, <1>3
<1>9. \A n \in K \cap (1..N) : KeepAt(text, K)[at[n]] = text[n]
  BY <1>1, <1>2, <1>7
<1> QED BY <1>4, <1>6, <1>8, <1>9 DEF Places

\* The places rise, and every line that is kept has one.
LEMMA PlacesRise ==
  ASSUME NEW S, NEW text \in Seq(S), NEW K, NEW kept, NEW at, Places(at, text, K, kept)
  PROVE  /\ \A n \in 0..Len(text) : \A m \in 0..n : at[m] <= at[n]
         /\ \A n \in 0..Len(text) : \A j \in 1..at[n] : \E m \in K \cap (1..n) : at[m] = j
<1> DEFINE N == Len(text)
           P == {n \in Nat : n <= N => /\ \A m \in 0..n : at[m] <= at[n]
                                       /\ \A j \in 1..at[n] : \E m \in K \cap (1..n) : at[m] = j}
<1>1. /\ N \in Nat /\ at \in [0..N -> Nat] /\ at[0] = 0
      /\ \A n \in 1..N : at[n] = IF n \in K THEN at[n - 1] + 1 ELSE at[n - 1]
  BY SeqIs DEF Places
<1>2. 0 \in P
  BY <1>1
<1>3. ASSUME NEW n \in Nat, n \in P PROVE n + 1 \in P
  <2> SUFFICES ASSUME n + 1 <= N
               PROVE  /\ \A m \in 0..(n + 1) : at[m] <= at[n + 1]
                      /\ \A j \in 1..at[n + 1] : \E m \in K \cap (1..(n + 1)) : at[m] = j
    OBVIOUS
  <2>1. n + 1 \in 1..N /\ (n + 1) - 1 = n /\ at[n] \in Nat /\ at[n + 1] \in Nat
    BY <1>1
  <2>2. at[n + 1] = IF n + 1 \in K THEN at[n] + 1 ELSE at[n]
    BY <1>1, <2>1
  <2>3. /\ \A m \in 0..n : at[m] <= at[n] /\ at[m] \in Nat
        /\ \A j \in 1..at[n] : \E m \in K \cap (1..n) : at[m] = j
    <3>1. n <= N /\ \A m \in 0..n : m \in 0..N
      BY <1>1
    <3>2. \A m \in 0..n : at[m] \in Nat
      BY <1>1, <3>1
    <3> QED BY <1>3, <3>1, <3>2
  <2>4. \A m \in 0..(n + 1) : at[m] <= at[n + 1]
    <3> TAKE m \in 0..(n + 1)
    <3>1. m \in 0..n \/ m = n + 1
      OBVIOUS
    <3> QED BY <2>1, <2>2, <2>3, <3>1
  <2>5. ASSUME NEW j \in 1..at[n + 1] PROVE \E m \in K \cap (1..(n + 1)) : at[m] = j
    <3>1. CASE j \in 1..at[n]
      BY <2>3, <3>1
    <3>2. CASE j \notin 1..at[n]
      <4>1. n + 1 \in K /\ j = at[n + 1]
        BY <2>1, <2>2, <3>2
      <4> QED BY <4>1
    <3> QED BY <3>1, <3>2
  <2> QED BY <2>4, <2>5
<1>4. Nat \subseteq P
  <2> HIDE DEF P
  <2> QED BY <1>2, <1>3, ByInduction
<1> QED BY <1>1, <1>4

\* Where the front matter ends, in SKILL.md and in its leaf.
LEMMA LeafEnds ==
  ASSUME NEW S, NEW text \in Seq(S), NEW leaf, leaf = NormalizeSkillMD(text), Block(leaf) # {}
  PROVE  \E end \in 3..Len(text) : \E at :
           /\ Places(at, text, DOMAIN text \ Dropped(text), leaf)
           /\ Block(text) = 2..(end - 1) /\ \A i \in 2..(end - 1) : text[i] # Delimiter
           /\ ParseSkillMD(text).front = SubSeq(text, 2, end - 1)
           /\ at[1] = 1 /\ Min(Closing(leaf, 2)) = at[end] /\ at[end] = at[end - 1] + 1
           /\ Block(leaf) = 2..at[end - 1] /\ leaf \in Seq(S) /\ at[end] <= Len(leaf)
<1> DEFINE N == Len(text)
           K == DOMAIN text \ Dropped(text)
<1>1. leaf = KeepAt(text, K) /\ leaf \in Seq(S)
  BY PlacesAre DEF NormalizeSkillMD
<1>2. PICK at : Places(at, text, K, leaf)
  BY <1>1, PlacesAre
<1>3. N \in Nat /\ DOMAIN text = 1..N /\ \A i \in 1..N : text[i] \in S
  BY SeqIs
<1>4. Dropped(text) \subseteq Block(text)
  BY DEF Dropped
<1>5. Closing(text, 2) # {}
  <2> SUFFICES ASSUME Closing(text, 2) = {} PROVE FALSE
    OBVIOUS
  <2>1. Block(text) = {} /\ K = 1..N
    BY <1>3, <1>4 DEF Block
  <2>2. /\ at \in [0..N -> Nat] /\ at[0] = 0 /\ Len(leaf) = at[N]
        /\ \A n \in 1..N : at[n] = at[n - 1] + 1 /\ leaf[at[n]] = text[n]
    BY <1>2, <1>3, <2>1 DEF Places
  <2>3. \A n \in 0..N : at[n] = n
    <3> DEFINE P == {n \in Nat : n <= N => at[n] = n}
    <3>1. 0 \in P
      BY <2>2
    <3>2. ASSUME NEW n \in Nat, n \in P PROVE n + 1 \in P
      <4> SUFFICES ASSUME n + 1 <= N PROVE at[n + 1] = n + 1
        OBVIOUS
      <4>1. n + 1 \in 1..N /\ (n + 1) - 1 = n
        BY <1>3
      <4> QED BY <2>2, <3>2, <4>1
    <3>3. Nat \subseteq P
      <4> HIDE DEF P
      <4> QED BY <3>1, <3>2, ByInduction
    <3> QED BY <3>3
  <2>4. leaf = text
    <3>1. Len(leaf) = N /\ \A i \in 1..N : leaf[i] = text[i]
      BY <1>3, <2>2, <2>3
    <3> QED BY <1>1, <3>1, SameSeq
  <2> QED BY <2>1, <2>4
<1>6. PICK end : end = Min(Closing(text, 2))
  OBVIOUS
<1>7. /\ end \in 2..N /\ text[end] = Delimiter
      /\ \A i \in 2..(end - 1) : text[i] # Delimiter
      /\ text[1] = Delimiter
  BY <1>5, <1>6, ClosingIs
<1>8. Block(text) = 2..(end - 1)
  BY <1>5, <1>6 DEF Block
<1>9. /\ at \in [0..N -> Nat] /\ at[0] = 0 /\ Len(leaf) = at[N]
      /\ \A n \in 1..N : at[n] = IF n \in K THEN at[n - 1] + 1 ELSE at[n - 1]
      /\ \A n \in K \cap (1..N) : leaf[at[n]] = text[n]
  BY <1>2 DEF Places
<1>10. /\ \A n \in 0..N : \A m \in 0..n : at[m] <= at[n]
       /\ \A n \in 0..N : \A j \in 1..at[n] : \E m \in K \cap (1..n) : at[m] = j
  BY <1>2, PlacesRise
<1>11. 1 \in K /\ end \in K
  BY <1>3, <1>4, <1>7, <1>8
<1> HIDE DEF K
<1>12. at[1] = 1 /\ at[end] = at[end - 1] + 1 /\ at[end] \in Nat /\ at[end - 1] \in Nat
  <2>1. 1 \in 1..N /\ end \in 1..N /\ end - 1 \in 0..N /\ 1 - 1 = 0
    BY <1>3, <1>7
  <2> QED BY <1>9, <1>11, <2>1
<1>13. at[1] <= at[end - 1] /\ at[end] <= at[N]
  <2>1. end - 1 \in 0..N /\ 1 \in 0..(end - 1) /\ N \in 0..N /\ end \in 0..N
    BY <1>3, <1>7
  <2> QED BY <1>10, <2>1
<1>14. leaf[1] = Delimiter /\ leaf[at[end]] = Delimiter
  <2>1. 1 \in K \cap (1..N) /\ end \in K \cap (1..N)
    BY <1>3, <1>7, <1>11
  <2> QED BY <1>7, <1>9, <1>12, <2>1
<1>15. \A j \in 2..at[end - 1] : leaf[j] # Delimiter
  <2> TAKE j \in 2..at[end - 1]
  <2>1. end - 1 \in 0..N /\ j \in 1..at[end - 1]
    BY <1>3, <1>7, <1>12
  <2>2. PICK m \in K \cap (1..(end - 1)) : at[m] = j
    BY <1>10, <2>1
  <2>3. m # 1 /\ m \in 1..N
    BY <1>3, <1>7, <1>12, <2>2
  <2>4. leaf[j] = text[m] /\ m \in 2..(end - 1)
    BY <1>9, <2>2, <2>3
  <2> QED BY <1>7, <2>4
<1>16. Len(leaf) \in Nat /\ DOMAIN leaf = 1..Len(leaf) /\ leaf # <<>>
  <2>1. Len(leaf) = at[N] /\ at[N] >= 1
    BY <1>3, <1>9, <1>12, <1>13
  <2> QED BY <1>1, <2>1, SeqIs
<1>17. at[end] \in Closing(leaf, 2)
  <2>1. at[end] \in 2..Len(leaf)
    BY <1>3, <1>9, <1>12, <1>13, <1>16
  <2> QED BY <1>14, <1>16, <2>1 DEF Closing
<1>18. PICK shut : shut = Min(Closing(leaf, 2))
  OBVIOUS
<1>19. shut \in 2..Len(leaf) /\ leaf[shut] = Delimiter /\ \A i \in 2..(shut - 1) : leaf[i] # Delimiter
  BY <1>1, <1>17, <1>18, ClosingIs
<1>20. shut = at[end]
  <2>1. ~(shut < at[end])
    BY <1>12, <1>15, <1>16, <1>19
  <2>2. ~(at[end] < shut)
    BY <1>12, <1>13, <1>14, <1>16, <1>19
  <2> QED BY <1>12, <1>16, <1>19, <2>1, <2>2
<1>21. Block(leaf) = 2..at[end - 1]
  <2>1. Block(leaf) = 2..(shut - 1)
    BY <1>17, <1>18 DEF Block
  <2> QED BY <1>12, <1>20, <2>1
<1>22. end \in 3..N
  <2>1. end # 2
    BY <1>12, <1>21
  <2> QED BY <1>3, <1>7, <2>1
<1>23. ParseSkillMD(text).front = SubSeq(text, 2, end - 1)
  <2>1. Closing(text, 3) = Closing(text, 2)
    <3>1. text # <<>>
      BY <1>3, <1>7
    <3> QED BY <1>3, <1>7, <1>22, <3>1 DEF Closing
  <2> QED BY <1>5, <1>6, <2>1 DEF ParseSkillMD
<1> QED
  <2>1. Places(at, text, DOMAIN text \ Dropped(text), leaf)
    BY <1>2 DEF K
  <2>2. at[end] <= Len(leaf)
    BY <1>9, <1>13
  <2> QED BY <1>1, <1>7, <1>8, <1>12, <1>18, <1>20, <1>21, <1>22, <1>23, <2>1, <2>2

-----------------------------------------------------------------------------
(* What YAML makes of the front matter, line by line.                       *)

Good(key, shape, says) == [key |-> key, shape |-> shape, quoted |-> FALSE, bad |-> FALSE, says |-> says]
Bad(key, shape, says) == [key |-> key, shape |-> shape, quoted |-> FALSE, bad |-> TRUE, says |-> says]
AtFirst == Good(NoKey, "none", <<>>)
Reading(run, lines, N) == run[0] = AtFirst /\ \A n \in 1..N : run[n] = YamlStep(run[n - 1], lines[n])
Outcome(doc) == IF doc.bad \/ doc.quoted THEN <<>> ELSE doc.says

LEMMA YamlIs ==
  ASSUME NEW lines, NEW N \in Nat, N = Len(lines)
  PROVE  \E run : Reading(run, lines, N) /\ Yaml(lines) = Outcome(run[N])
<1> DEFINE Goes(g, n) == IF n = 0 THEN AtFirst ELSE YamlStep(g[n - 1], lines[n])
           E(g) == [n \in 0..N |-> Goes(g, n)]
           P == {n \in Nat : \E g : \A k \in 0..n : g[k] = Goes(g, k)}
<1> HIDE DEF AtFirst
<1>1. 0 \in P
  <2>1. PICK g : g = [k \in {0} |-> AtFirst]
    OBVIOUS
  <2>2. \A k \in 0..0 : g[k] = Goes(g, k)
    BY <2>1
  <2> QED BY <2>2
<1>2. ASSUME NEW n \in Nat, n \in P PROVE n + 1 \in P
  <2>1. PICK g : \A k \in 0..n : g[k] = Goes(g, k)
    BY <1>2
  <2>2. PICK h : h = [k \in 0..(n + 1) |-> IF k = n + 1 THEN YamlStep(g[n], lines[n + 1]) ELSE g[k]]
    OBVIOUS
  <2>3. \A k \in 0..n : h[k] = g[k]
    BY <2>2
  <2>4. ASSUME NEW k \in 0..(n + 1) PROVE h[k] = Goes(h, k)
    <3>1. CASE k = 0
      BY <2>1, <2>3, <3>1
    <3>2. CASE k \in 1..n
      <4>1. h[k] = g[k] /\ h[k - 1] = g[k - 1] /\ k # 0 /\ g[k] = Goes(g, k)
        BY <2>1, <2>3, <3>2
      <4> QED BY <4>1
    <3>3. CASE k = n + 1
      <4>1. h[k] = YamlStep(g[n], lines[n + 1]) /\ h[n] = g[n] /\ k # 0 /\ k - 1 = n
        BY <2>2, <2>3, <3>3
      <4> QED BY <3>3, <4>1
    <3>4. k = 0 \/ k \in 1..n \/ k = n + 1
      OBVIOUS
    <3> QED BY <3>1, <3>2, <3>3, <3>4
  <2> HIDE DEF Goes
  <2> QED BY <2>4
<1>3. N \in P
  <2> HIDE DEF P
  <2> QED BY <1>1, <1>2, ByInduction
<1>4. PICK g : \A k \in 0..N : g[k] = Goes(g, k)
  BY <1>3
<1>5. PICK h : h = [k \in 0..N |-> g[k]]
  OBVIOUS
<1>6. h = E(h)
  <2>1. \A k \in 0..N : Goes(g, k) = Goes(h, k)
    <3> TAKE k \in 0..N
    <3>1. k = 0 \/ (k # 0 /\ k - 1 \in 0..N)
      OBVIOUS
    <3> QED BY <1>5, <3>1
  <2> HIDE DEF Goes
  <2> QED BY <1>4, <1>5, <2>1
<1>7. PICK run : run = CHOOSE x : x = E(x)
  OBVIOUS
<1>8. run = E(run)
  <2> HIDE DEF E
  <2> QED BY <1>6, <1>7
<1>9. Yaml(lines) = Outcome(run[N])
  BY <1>7 DEF Yaml, Outcome, AtFirst, Good
<1>10. \A n \in 0..N : run[n] = Goes(run, n)
  <2> HIDE DEF Goes
  <2> QED BY <1>8
<1>11. Reading(run, lines, N)
  <2>1. run[0] = AtFirst
    BY <1>10
  <2>2. \A n \in 1..N : run[n] = YamlStep(run[n - 1], lines[n])
    BY <1>10
  <2> QED BY <2>1, <2>2 DEF Reading
<1> QED BY <1>9, <1>11

Anew(says, line) == [k \in DOMAIN says \cup {line.key} |-> IF k = line.key THEN <<line>> ELSE says[k]]
Further(says, key, line) == [says EXCEPT ![key] = Append(@, line)]
ShapeBeside(shape, line) == IF line.value = "comment" /\ shape \notin Nesting THEN "done" ELSE shape

\* A step outside quotes.
LEMMA StepWhenBad ==
  ASSUME NEW key, NEW shape, NEW says, NEW line, NEW doc, doc = Bad(key, shape, says)
  PROVE  YamlStep(doc, line) = Bad(key, shape, says)
BY DEF YamlStep, Bad

LEMMA StepOn ==
  ASSUME NEW key, NEW shape, NEW says, NEW line, NEW doc, doc = Good(key, shape, says),
         line # Delimiter, line.value # "open", GoesOn(shape, line)
  PROVE  YamlStep(doc, line) = Good(key, ShapeAfter(shape, line), Further(says, key, line))
<1>1. (shape \in Nesting /\ line.value = "open") = FALSE
  OBVIOUS
<1>2. GoesOn(shape, line) = TRUE
  BY DEF GoesOn
<1> QED BY <1>1, <1>2 DEF YamlStep, Good, Further

LEMMA StepBeside ==
  ASSUME NEW key, NEW shape, NEW says, NEW line, NEW doc, doc = Good(key, shape, says),
         line # Delimiter, Void(line), ~GoesOn(shape, line)
  PROVE  YamlStep(doc, line) = Good(key, ShapeBeside(shape, line), says)
BY DEF YamlStep, Good, ShapeBeside

LEMMA StepBreaks ==
  ASSUME NEW key, NEW shape, NEW says, NEW line, NEW doc, doc = Good(key, shape, says),
         line # Delimiter, line.indented, ~Void(line), ~GoesOn(shape, line)
  PROVE  YamlStep(doc, line) = Bad(key, shape, says)
BY DEF YamlStep, Good, Bad

\* A line that starts a field.
Starts(line) == line # Delimiter /\ line.value \notin {"open", "keep", "item"} /\ ~Void(line) /\ ~line.indented

LEMMA StepToKey ==
  ASSUME NEW key, NEW shape, NEW says, NEW line, NEW doc, doc = Good(key, shape, says), Starts(line)
  PROVE  YamlStep(doc, line) = IF line.key = NoKey \/ line.key \in DOMAIN says
                               THEN Bad(line.key, line.value, Anew(says, line))
                               ELSE Good(line.key, line.value, Anew(says, line))
<1>1. /\ (line.value = "open") = FALSE /\ ~GoesOn(shape, line) /\ ~Void(line) /\ ~line.indented
      /\ line # Delimiter
  BY DEF Starts, GoesOn, Void
<1>2. CASE line.key = NoKey \/ line.key \in DOMAIN says
  <2>1. (line.key = NoKey \/ line.key \in DOMAIN says) = TRUE
    BY <1>2
  <2> QED BY <1>1, <1>2, <2>1 DEF YamlStep, Good, Bad, Anew
<1>3. CASE ~(line.key = NoKey \/ line.key \in DOMAIN says)
  <2>1. (line.key = NoKey \/ line.key \in DOMAIN says) = FALSE
    BY <1>3
  <2> QED BY <1>1, <1>3, <2>1 DEF YamlStep, Good, Bad, Anew
<1> QED BY <1>2, <1>3

\* What two documents say, the second read without the lines whose keys are gone.
SayAlike(f, g, gone, seen) ==
  /\ DOMAIN f = DOMAIN g \cup gone /\ DOMAIN g \subseteq seen
  /\ \A x \in DOMAIN g : x \notin gone /\ f[x] = g[x]

\* They are equally readable, and the same but for those keys.
Alike(d, e, gone, seen) ==
  \/ \E k, s, f, l, t, g : d = Bad(k, s, f) /\ e = Bad(l, t, g)
  \/ \E k, s, f, l, t, g :
       /\ d = Good(k, s, f) /\ e = Good(l, t, g) /\ s # "keep" /\ t # "keep"
       /\ SayAlike(f, g, gone, seen)

\* And what follows continues the same key.
AtOneKey(d, e, gone, seen) ==
  \/ \E k, s, f, l, t, g : d = Bad(k, s, f) /\ e = Bad(l, t, g)
  \/ \E k, s, f, g :
       /\ d = Good(k, s, f) /\ e = Good(k, s, g) /\ s # "keep"
       /\ SayAlike(f, g, gone, seen)
       /\ s \in {"none", "done"} \/ k \in DOMAIN g

LEMMA BothGood ==
  ASSUME NEW gone, NEW seen, NEW k, NEW s, NEW f, NEW l, NEW t, NEW g,
         NEW d, d = Good(k, s, f), NEW e, e = Good(l, t, g), s # "keep", t # "keep",
         SayAlike(f, g, gone, seen)
  PROVE  Alike(d, e, gone, seen)
<1> SUFFICES \E K, S, F, L, T, G :
       /\ d = Good(K, S, F) /\ e = Good(L, T, G) /\ S # "keep" /\ T # "keep"
       /\ SayAlike(F, G, gone, seen)
  BY DEF Alike
<1> WITNESS k, s, f, l, t, g
<1> QED OBVIOUS

LEMMA BothAtKey ==
  ASSUME NEW gone, NEW seen, NEW k, NEW s, NEW f, NEW g,
         NEW d, d = Good(k, s, f), NEW e, e = Good(k, s, g), s # "keep",
         SayAlike(f, g, gone, seen), s \in {"none", "done"} \/ k \in DOMAIN g
  PROVE  AtOneKey(d, e, gone, seen)
<1> SUFFICES \E K, S, F, G :
       /\ d = Good(K, S, F) /\ e = Good(K, S, G) /\ S # "keep"
       /\ SayAlike(F, G, gone, seen)
       /\ S \in {"none", "done"} \/ K \in DOMAIN G
  BY DEF AtOneKey
<1> WITNESS k, s, f, g
<1> QED OBVIOUS

LEMMA BothBad ==
  ASSUME NEW k, NEW s, NEW f, NEW l, NEW t, NEW g, NEW d, d = Bad(k, s, f), NEW e, e = Bad(l, t, g),
         NEW gone, NEW seen
  PROVE  AtOneKey(d, e, gone, seen)
BY DEF AtOneKey

LEMMA AtKeyIsAlike ==
  ASSUME NEW d, NEW e, NEW gone, NEW seen, AtOneKey(d, e, gone, seen)
  PROVE  Alike(d, e, gone, seen)
<1>1. CASE \E k, s, f, l, t, g : d = Bad(k, s, f) /\ e = Bad(l, t, g)
  BY <1>1 DEF Alike
<1>2. CASE \E k, s, f, g :
       /\ d = Good(k, s, f) /\ e = Good(k, s, g) /\ s # "keep"
       /\ SayAlike(f, g, gone, seen)
       /\ s \in {"none", "done"} \/ k \in DOMAIN g
  <2>1. PICK k, s, f, g :
       d = Good(k, s, f) /\ e = Good(k, s, g) /\ s # "keep" /\ SayAlike(f, g, gone, seen)
    BY <1>2
  <2> QED BY <2>1, BothGood
<1> QED BY <1>1, <1>2 DEF AtOneKey

\* A line that the second does not read.
LEMMA AlikeWithout ==
  ASSUME NEW d, NEW e, NEW gone, NEW seen, Alike(d, e, gone, seen),
         NEW line, Starts(line), line.key # NoKey, line.key \notin gone \cup seen
  PROVE  Alike(YamlStep(d, line), e, gone \cup {line.key}, seen)
<1>1. CASE \E k, s, f, l, t, g : d = Bad(k, s, f) /\ e = Bad(l, t, g)
  BY <1>1, StepWhenBad DEF Alike
<1>2. CASE \E k, s, f, l, t, g :
             /\ d = Good(k, s, f) /\ e = Good(l, t, g) /\ s # "keep" /\ t # "keep"
             /\ SayAlike(f, g, gone, seen)
  <2>1. PICK k, s, f, l, t, g :
             /\ d = Good(k, s, f) /\ e = Good(l, t, g) /\ s # "keep" /\ t # "keep"
             /\ SayAlike(f, g, gone, seen)
    BY <1>2
  <2>2. line.key \notin DOMAIN f /\ line.key \notin DOMAIN g
    BY <2>1 DEF SayAlike
  <2>3. PICK h : h = Anew(f, line)
    OBVIOUS
  <2>4. YamlStep(d, line) = Good(line.key, line.value, h)
    <3>1. YamlStep(d, line) = IF line.key = NoKey \/ line.key \in DOMAIN f
                              THEN Bad(line.key, line.value, h) ELSE Good(line.key, line.value, h)
      BY <2>1, <2>3, StepToKey
    <3> QED BY <2>2, <3>1
  <2>5. SayAlike(h, g, gone \cup {line.key}, seen)
    BY <2>1, <2>2, <2>3 DEF SayAlike, Anew
  <2>6. line.value # "keep" /\ t # "keep" /\ e = Good(l, t, g)
    BY <2>1 DEF Starts
  <2> QED BY ONLY <2>4, <2>5, <2>6, BothGood
<1> QED BY <1>1, <1>2 DEF Alike

\* A blank or comment line below different keys.
LEMMA AlikeBeside ==
  ASSUME NEW d, NEW e, NEW gone, NEW seen, Alike(d, e, gone, seen),
         NEW line, line # Delimiter, Void(line), ~line.indented, NEW more, seen \subseteq more
  PROVE  Alike(YamlStep(d, line), YamlStep(e, line), gone, more)
<1>1. CASE \E k, s, f, l, t, g : d = Bad(k, s, f) /\ e = Bad(l, t, g)
  BY <1>1, StepWhenBad DEF Alike
<1>2. CASE \E k, s, f, l, t, g :
             /\ d = Good(k, s, f) /\ e = Good(l, t, g) /\ s # "keep" /\ t # "keep"
             /\ SayAlike(f, g, gone, seen)
  <2>1. PICK k, s, f, l, t, g :
             /\ d = Good(k, s, f) /\ e = Good(l, t, g) /\ s # "keep" /\ t # "keep"
             /\ SayAlike(f, g, gone, seen)
    BY <1>2
  <2>2. ~GoesOn(s, line) /\ ~GoesOn(t, line)
    BY <2>1 DEF GoesOn, Void
  <2>3. PICK u, v : u = ShapeBeside(s, line) /\ v = ShapeBeside(t, line)
    OBVIOUS
  <2>4. YamlStep(d, line) = Good(k, u, f) /\ YamlStep(e, line) = Good(l, v, g)
    BY <2>1, <2>2, <2>3, StepBeside
  <2>5. u # "keep" /\ v # "keep"
    BY <2>1, <2>3 DEF ShapeBeside
  <2>6. SayAlike(f, g, gone, more)
    BY <2>1 DEF SayAlike
  <2> QED BY ONLY <2>4, <2>5, <2>6, BothGood
<1> QED BY <1>1, <1>2 DEF Alike

\* A field that both read.
LEMMA AlikeAnew ==
  ASSUME NEW d, NEW e, NEW gone, NEW seen, Alike(d, e, gone, seen),
         NEW line, Starts(line), line.key \notin gone, NEW more, seen \subseteq more, line.key \in more
  PROVE  AtOneKey(YamlStep(d, line), YamlStep(e, line), gone, more)
<1>1. CASE \E k, s, f, l, t, g : d = Bad(k, s, f) /\ e = Bad(l, t, g)
  BY <1>1, StepWhenBad DEF AtOneKey
<1>2. CASE \E k, s, f, l, t, g :
             /\ d = Good(k, s, f) /\ e = Good(l, t, g) /\ s # "keep" /\ t # "keep"
             /\ SayAlike(f, g, gone, seen)
  <2>1. PICK k, s, f, l, t, g : d = Good(k, s, f) /\ e = Good(l, t, g) /\ SayAlike(f, g, gone, seen)
    BY <1>2
  <2>2. PICK h, i : h = Anew(f, line) /\ i = Anew(g, line)
    OBVIOUS
  <2>3. (line.key \in DOMAIN f) <=> (line.key \in DOMAIN g)
    BY <2>1 DEF SayAlike
  <2>4. YamlStep(d, line) = IF line.key = NoKey \/ line.key \in DOMAIN f
                            THEN Bad(line.key, line.value, h) ELSE Good(line.key, line.value, h)
    BY <2>1, <2>2, StepToKey
  <2>5. YamlStep(e, line) = IF line.key = NoKey \/ line.key \in DOMAIN g
                            THEN Bad(line.key, line.value, i) ELSE Good(line.key, line.value, i)
    BY <2>1, <2>2, StepToKey
  <2>6. SayAlike(h, i, gone, more) /\ line.key \in DOMAIN i /\ line.value # "keep"
    BY <2>1, <2>2 DEF SayAlike, Anew, Starts
  <2>7. CASE line.key = NoKey \/ line.key \in DOMAIN g
    <3>1. YamlStep(d, line) = Bad(line.key, line.value, h) /\ YamlStep(e, line) = Bad(line.key, line.value, i)
      BY <2>3, <2>4, <2>5, <2>7
    <3> QED BY ONLY <3>1, BothBad
  <2>8. CASE ~(line.key = NoKey \/ line.key \in DOMAIN g)
    <3>1. YamlStep(d, line) = Good(line.key, line.value, h) /\ YamlStep(e, line) = Good(line.key, line.value, i)
      BY <2>3, <2>4, <2>5, <2>8
    <3> QED BY ONLY <2>6, <3>1, BothAtKey
  <2> QED BY <2>7, <2>8
<1> QED BY <1>1, <1>2 DEF Alike

\* An indented line below one key.
LEMMA AlikeWithin ==
  ASSUME NEW d, NEW e, NEW gone, NEW seen, AtOneKey(d, e, gone, seen),
         NEW line, line # Delimiter, line.value # "open", line.indented, NEW more, seen \subseteq more
  PROVE  AtOneKey(YamlStep(d, line), YamlStep(e, line), gone, more)
<1>1. CASE \E k, s, f, l, t, g : d = Bad(k, s, f) /\ e = Bad(l, t, g)
  BY <1>1, StepWhenBad DEF AtOneKey
<1>2. CASE \E k, s, f, g :
             /\ d = Good(k, s, f) /\ e = Good(k, s, g) /\ s # "keep"
             /\ SayAlike(f, g, gone, seen)
             /\ s \in {"none", "done"} \/ k \in DOMAIN g
  <2>1. PICK k, s, f, g :
             /\ d = Good(k, s, f) /\ e = Good(k, s, g) /\ s # "keep"
             /\ SayAlike(f, g, gone, seen)
             /\ s \in {"none", "done"} \/ k \in DOMAIN g
    BY <1>2
  <2>2. CASE GoesOn(s, line)
    <3>1. PICK h, i, u : h = Further(f, k, line) /\ i = Further(g, k, line) /\ u = ShapeAfter(s, line)
      OBVIOUS
    <3>2. YamlStep(d, line) = Good(k, u, h) /\ YamlStep(e, line) = Good(k, u, i)
      BY <2>1, <2>2, <3>1, StepOn
    <3>3. DOMAIN h = DOMAIN f /\ DOMAIN i = DOMAIN g
      BY <3>1 DEF Further
    <3>4. k \in DOMAIN g /\ k \in DOMAIN f
      <4>1. s \notin {"none", "done"}
        BY <2>2 DEF GoesOn, Nesting
      <4> QED BY <2>1, <4>1 DEF SayAlike
    <3>5. \A x \in DOMAIN i : x \notin gone /\ h[x] = i[x]
      <4> TAKE x \in DOMAIN i
      <4>1. x \notin gone /\ f[x] = g[x] /\ x \in DOMAIN f /\ x \in DOMAIN g
        BY <2>1, <3>3 DEF SayAlike
      <4>2. CASE x = k
        <5>1. h[x] = Append(f[x], line) /\ i[x] = Append(g[x], line)
          BY <3>1, <3>4, <4>2 DEF Further
        <5> QED BY <4>1, <5>1
      <4>3. CASE x # k
        <5>1. h[x] = f[x] /\ i[x] = g[x]
          BY <3>1, <4>1, <4>3 DEF Further
        <5> QED BY <4>1, <5>1
      <4> QED BY <4>2, <4>3
    <3>6. SayAlike(h, i, gone, more) /\ k \in DOMAIN i
      BY <2>1, <3>3, <3>4, <3>5 DEF SayAlike
    <3>7. u # "keep"
      BY <2>1, <3>1 DEF ShapeAfter
    <3> QED BY ONLY <3>2, <3>6, <3>7, BothAtKey
  <2>3. CASE ~GoesOn(s, line) /\ Void(line)
    <3>1. PICK u : u = ShapeBeside(s, line)
      OBVIOUS
    <3>2. YamlStep(d, line) = Good(k, u, f) /\ YamlStep(e, line) = Good(k, u, g)
      BY <2>1, <2>3, <3>1, StepBeside
    <3>3. u # "keep" /\ (u \in {"none", "done"} \/ k \in DOMAIN g)
      BY <2>1, <3>1 DEF ShapeBeside
    <3>4. SayAlike(f, g, gone, more)
      BY <2>1 DEF SayAlike
    <3> QED BY ONLY <3>2, <3>3, <3>4, BothAtKey
  <2>4. CASE ~GoesOn(s, line) /\ ~Void(line)
    <3>1. YamlStep(d, line) = Bad(k, s, f) /\ YamlStep(e, line) = Bad(k, s, g)
      BY <2>1, <2>4, StepBreaks
    <3> QED BY ONLY <3>1, BothBad
  <2> QED BY <2>2, <2>3, <2>4
<1> QED BY <1>1, <1>2 DEF AtOneKey

\* Lines that the leaf leaves out say nothing of the keys that it keeps.
LEMMA LeafSaysTheSame ==
  ASSUME NEW S, NEW text \in Seq(S), NEW leaf, leaf = NormalizeSkillMD(text), FirmFront(leaf)
  PROVE  ManifestFields(ParseSkillMD(text).front) = ManifestFields(SubSeq(leaf, 2, Min(Closing(leaf, 2)) - 1))
<1> DEFINE N == Len(text)
           D == Dropped(text)
           K == DOMAIN text \ Dropped(text)
           front == ParseSkillMD(text).front
<1>1. PICK end \in 3..N : \E at :
           /\ Places(at, text, K, leaf)
           /\ Block(text) = 2..(end - 1) /\ \A i \in 2..(end - 1) : text[i] # Delimiter
           /\ front = SubSeq(text, 2, end - 1)
           /\ at[1] = 1 /\ Min(Closing(leaf, 2)) = at[end] /\ at[end] = at[end - 1] + 1
           /\ Block(leaf) = 2..at[end - 1] /\ leaf \in Seq(S) /\ at[end] <= Len(leaf)
  BY LeafEnds DEF FirmFront
<1>2. PICK at :
           /\ Places(at, text, K, leaf)
           /\ Block(text) = 2..(end - 1) /\ \A i \in 2..(end - 1) : text[i] # Delimiter
           /\ front = SubSeq(text, 2, end - 1)
           /\ at[1] = 1 /\ Min(Closing(leaf, 2)) = at[end] /\ at[end] = at[end - 1] + 1
           /\ Block(leaf) = 2..at[end - 1] /\ leaf \in Seq(S) /\ at[end] <= Len(leaf)
  BY <1>1
<1>3. /\ N \in Nat /\ DOMAIN text = 1..N /\ end \in 3..N
      /\ at \in [0..N -> Nat]
      /\ \A n \in 1..N : at[n] = IF n \in K THEN at[n - 1] + 1 ELSE at[n - 1]
      /\ \A n \in K \cap (1..N) : leaf[at[n]] = text[n]
      /\ Len(leaf) \in Nat
  BY <1>1, <1>2, SeqIs DEF Places
<1>4. PICK kept : kept = SubSeq(leaf, 2, at[end] - 1)
  OBVIOUS
<1>5. Len(front) = end - 2 /\ \A i \in 1..(end - 2) : front[i] = text[i + 1]
  <2>1. 2 \in 1..(N + 1) /\ end - 1 \in (2 - 1)..N
    BY <1>3
  <2> QED BY <1>2, <2>1, SubSeqProperties
<1>6. at[end] \in Nat /\ at[end - 1] \in Nat /\ at[end - 1] >= 1
  <2>1. end \in 0..N /\ end - 1 \in 0..N /\ 1 \in 0..(end - 1)
    BY <1>3
  <2>2. at[1] <= at[end - 1]
    BY <1>2, <2>1, PlacesRise
  <2> QED BY <1>2, <1>3, <2>1, <2>2
<1>7. Len(kept) = at[end - 1] - 1 /\ \A i \in 1..(at[end - 1] - 1) : kept[i] = leaf[i + 1]
  <2>1. 2 \in 1..(Len(leaf) + 1) /\ at[end] - 1 \in (2 - 1)..Len(leaf)
    BY <1>2, <1>3, <1>6
  <2>2. leaf \in Seq(S)
    BY <1>2
  <2>3. /\ Len(kept) = (at[end] - 1) - 2 + 1
        /\ \A i \in 1..((at[end] - 1) - 2 + 1) : kept[i] = leaf[2 + i - 1]
    BY <1>4, <2>1, <2>2, SubSeqProperties
  <2>4. (at[end] - 1) - 2 + 1 = at[end - 1] - 1 /\ \A i \in Nat : 2 + i - 1 = i + 1
    BY <1>2, <1>6
  <2> QED BY <2>3, <2>4
<1>8. PICK d : Reading(d, front, end - 2) /\ Yaml(front) = Outcome(d[end - 2])
  <2>1. end - 2 \in Nat
    BY <1>3
  <2> HIDE DEF front
  <2> QED BY <1>5, <2>1, YamlIs
<1>9. PICK e : Reading(e, kept, at[end - 1] - 1) /\ Yaml(kept) = Outcome(e[at[end - 1] - 1])
  <2>1. at[end - 1] - 1 \in Nat
    BY <1>6
  <2> QED BY <1>7, <2>1, YamlIs
<1> DEFINE gone(n) == {text[i].key : i \in {i \in 2..n : i \in D}}
           seen(n) == {text[i].key : i \in {i \in 2..n : i \notin D /\ ~text[i].indented}}
           Firm(n) == n = 1 \/ (n \notin D /\ (text[n].indented \/ ~Void(text[n])))
           Same(n) == /\ Alike(d[n - 1], e[at[n] - 1], gone(n), seen(n))
                      /\ Firm(n) => AtOneKey(d[n - 1], e[at[n] - 1], gone(n), seen(n))
           P == {n \in Nat : n + 1 <= end - 1 => Same(n + 1)}
<1>10. /\ D \subseteq Block(text)
       /\ \A i \in D : /\ Reserved(text[i]) /\ OnlyOne(text, i) /\ SafeScalar(text[i])
                       /\ ~Continued(text, i)
  BY DEF Dropped
<1>11. \A i \in D : Starts(text[i]) /\ ~text[i].indented /\ text[i].key # NoKey
  <2> TAKE i \in D
  <2>1. text[i].value \in {"plain", "quoted"}
    BY <1>10 DEF SafeScalar
  <2>2. text[i] # Delimiter
    BY <1>2, <1>10
  <2> QED BY <1>10, <2>1, <2>2 DEF Reserved, Fold, NoKey, Starts, Void
<1>12. \A i \in D : \A j \in Block(text) \ {i} : ~text[j].indented => text[j].key # text[i].key
  BY <1>10, <1>11 DEF OnlyOne, Reserved
<1>13. \A n \in 2..(end - 1) : /\ n \in Block(text) /\ n \in 1..N /\ n - 1 \in 0..N
                               /\ at[n] \in Nat /\ at[n - 1] \in Nat /\ at[n - 1] >= 1 /\ at[n] <= at[end - 1]
  <2> TAKE n \in 2..(end - 1)
  <2>1. n \in 0..N /\ n - 1 \in 0..N /\ end - 1 \in 0..N /\ n \in 0..(end - 1) /\ 1 \in 0..(n - 1)
    BY <1>3
  <2>2. at[1] <= at[n - 1] /\ at[n] <= at[end - 1]
    BY <1>2, <2>1, PlacesRise
  <2>3. n \in Block(text)
    BY <1>2
  <2>4. n \in 1..N
    BY <1>3
  <2>5. at[n] \in Nat /\ at[n - 1] \in Nat
    BY <1>3, <2>1
  <2>6. at[1] = 1
    BY <1>2
  <2>7. at[n - 1] >= 1
    BY ONLY <2>2, <2>5, <2>6
  <2> QED BY ONLY <2>1, <2>2, <2>3, <2>4, <2>5, <2>7
<1>14. \A n \in 2..(end - 1) : d[n - 1] = YamlStep(d[n - 2], text[n])
  <2> TAKE n \in 2..(end - 1)
  <2>1. n - 1 \in 1..(end - 2) /\ (n - 1) - 1 = n - 2 /\ (n - 1) + 1 = n
    BY <1>3
  <2> QED BY <1>5, <1>8, <2>1 DEF Reading
<1>15. \A n \in 2..(end - 1) : n \notin D =>
         /\ at[n] = at[n - 1] + 1 /\ at[n] \in Block(leaf) /\ leaf[at[n]] = text[n]
         /\ e[at[n] - 1] = YamlStep(e[at[n - 1] - 1], text[n])
  <2> TAKE n \in 2..(end - 1)
  <2> HAVE n \notin D
  <2>1. n \in K \cap (1..N)
    BY <1>3, <1>13
  <2>2. at[n] = at[n - 1] + 1 /\ leaf[at[n]] = text[n]
    BY <1>3, <2>1
  <2>3. at[n] - 1 \in 1..(at[end - 1] - 1) /\ (at[n] - 1) - 1 = at[n - 1] - 1 /\ (at[n] - 1) + 1 = at[n]
    <3>1. at[n] \in Nat /\ at[n - 1] \in Nat /\ at[n - 1] >= 1 /\ at[n] <= at[end - 1]
      BY <1>13
    <3>2. at[end - 1] \in Nat /\ at[n] = at[n - 1] + 1
      BY <1>6, <2>2
    <3> QED BY ONLY <3>1, <3>2
  <2>4. kept[at[n] - 1] = text[n]
    BY <1>7, <2>2, <2>3
  <2>5. at[n] \in Block(leaf)
    <3>1. at[n] \in Nat /\ at[n - 1] \in Nat /\ at[n - 1] >= 1 /\ at[n] <= at[end - 1]
      BY <1>13
    <3>2. at[end - 1] \in Nat /\ at[n] = at[n - 1] + 1
      BY <1>6, <2>2
    <3>3. at[n] \in 2..at[end - 1]
      BY ONLY <3>1, <3>2
    <3> QED BY <1>2, <3>3
  <2> QED BY <1>9, <2>2, <2>3, <2>4, <2>5 DEF Reading
<1>16. \A n \in 2..(end - 1) : n \in D => at[n] = at[n - 1]
  BY <1>3, <1>13
<1> HIDE DEF D, K, front, N
<1>17. 0 \in P
  <2>1. at[1] - 1 = 0 /\ 1 - 1 = 0 /\ 0 + 1 = 1
    BY <1>2
  <2>2. d[0] = AtFirst /\ e[0] = AtFirst
    BY <1>8, <1>9 DEF Reading
  <2>3. gone(1) = {} /\ seen(1) = {}
    OBVIOUS
  <2>4. AtOneKey(d[0], e[0], {}, {})
    <3>1. PICK says : says = <<>>
      OBVIOUS
    <3>2. SayAlike(says, says, {}, {})
      BY <3>1 DEF SayAlike
    <3>3. AtFirst = Good(NoKey, "none", says)
      BY <3>1 DEF AtFirst
    <3> QED BY <2>2, <3>2, <3>3, BothAtKey
  <2>5. Alike(d[0], e[0], {}, {})
    BY <2>4, AtKeyIsAlike
  <2> HIDE DEF gone, seen
  <2> QED BY <2>1, <2>3, <2>4, <2>5
<1>18. ASSUME NEW m \in Nat, m \in P PROVE m + 1 \in P
  <2> SUFFICES ASSUME NEW n, n = (m + 1) + 1, n <= end - 1 PROVE Same(n)
    <3> HIDE DEF Same
    <3> QED OBVIOUS
  <2>1. n \in 2..(end - 1) /\ n - 1 = m + 1 /\ (n - 1) - 1 = n - 2
    BY <1>3
  <2>2. Same(n - 1)
    BY <1>18, <2>1
  <2>3. d[n - 1] = YamlStep(d[n - 2], text[n]) /\ text[n] # Delimiter
    BY <1>2, <1>14, <2>1
  <2>4. text[n].indented => Firm(n - 1)
    <3> SUFFICES ASSUME text[n].indented, n - 1 # 1 PROVE Firm(n - 1)
      OBVIOUS
    <3>1. (n - 1) + 1 = n /\ n \in Block(text) /\ n - 1 \in 2..(end - 1)
      BY <1>13, <2>1
    <3>2. n - 1 \notin D /\ n \notin D
      BY <1>10, <1>11, <3>1 DEF Continued
    <3>3. /\ at[n] = at[n - 1] + 1 /\ at[n] \in Block(leaf) /\ leaf[at[n]] = text[n]
          /\ at[n - 1] \in Block(leaf) /\ leaf[at[n - 1]] = text[n - 1]
      BY <1>15, <2>1, <3>1, <3>2
    <3>4. Continued(leaf, at[n - 1])
      BY <3>3 DEF Continued
    <3> QED BY <3>2, <3>3, <3>4 DEF FirmFront
  <2>5. CASE n \in D
    <3>1. text[n].key \notin gone(n - 1) \cup seen(n - 1)
      <4>1. ASSUME NEW i \in 2..(n - 1), ~text[i].indented PROVE text[i].key # text[n].key
        <5>1. i \in Block(text) \ {n}
          BY <1>13, <2>1
        <5> QED BY <1>12, <2>5, <4>1, <5>1
      <4> QED BY <1>11, <4>1
    <3>2. gone(n) = gone(n - 1) \cup {text[n].key} /\ seen(n) = seen(n - 1)
      <4>1. \A i : i \in 2..n <=> i \in 2..(n - 1) \/ i = n
        BY <2>1
      <4> QED BY <2>5, <4>1
    <3>3. at[n] = at[n - 1]
      BY <1>16, <2>1, <2>5
    <3> HIDE DEF gone, seen
    <3>4. Alike(d[n - 2], e[at[n] - 1], gone(n - 1), seen(n - 1))
      BY <2>1, <2>2, <3>3
    <3>5. Alike(d[n - 1], e[at[n] - 1], gone(n), seen(n))
      <4>1. Starts(text[n]) /\ text[n].key # NoKey
        BY <1>11, <2>5
      <4> QED BY <2>3, <3>1, <3>2, <3>4, <4>1, AlikeWithout
    <3>6. ~Firm(n)
      BY <2>1, <2>5
    <3> QED BY <3>5, <3>6
  <2>6. CASE n \notin D
    <3>1. ~text[n].indented => text[n].key \notin gone(n - 1)
      <4>1. ASSUME NEW i \in 2..(n - 1), i \in D, ~text[n].indented PROVE text[n].key # text[i].key
        <5>1. n \in Block(text) \ {i}
          BY <1>13, <2>1
        <5> QED BY <1>12, <4>1, <5>1
      <4> QED BY <4>1
    <3>2. gone(n) = gone(n - 1) /\ seen(n - 1) \subseteq seen(n) /\ (~text[n].indented => text[n].key \in seen(n))
      <4>1. \A i : i \in 2..n <=> i \in 2..(n - 1) \/ i = n
        BY <2>1
      <4> QED BY <2>6, <4>1
    <3>3. /\ text[n].value \notin {"open", "keep"} /\ (text[n].value = "item" => text[n].indented)
          /\ e[at[n] - 1] = YamlStep(e[at[n - 1] - 1], text[n])
      <4>1. at[n] \in Block(leaf) /\ leaf[at[n]] = text[n] /\ e[at[n] - 1] = YamlStep(e[at[n - 1] - 1], text[n])
        BY <1>15, <2>1, <2>6
      <4> QED BY <4>1 DEF FirmFront
    <3>4. Alike(d[n - 2], e[at[n - 1] - 1], gone(n - 1), seen(n - 1))
      BY <2>1, <2>2
    <3>5. text[n].indented => AtOneKey(d[n - 2], e[at[n - 1] - 1], gone(n - 1), seen(n - 1))
      BY <2>1, <2>2, <2>4
    <3> HIDE DEF gone, seen, Firm
    <3>6. CASE text[n].indented
      <4>1. AtOneKey(d[n - 1], e[at[n] - 1], gone(n), seen(n))
        BY <2>3, <3>2, <3>3, <3>5, <3>6, AlikeWithin
      <4> QED BY <4>1, AtKeyIsAlike
    <3>7. CASE ~text[n].indented /\ ~Void(text[n])
      <4>1. Starts(text[n])
        BY <2>3, <3>3, <3>7 DEF Starts
      <4>2. AtOneKey(d[n - 1], e[at[n] - 1], gone(n), seen(n))
        BY <2>3, <3>1, <3>2, <3>3, <3>4, <3>7, <4>1, AlikeAnew
      <4> QED BY <4>2, AtKeyIsAlike
    <3>8. CASE ~text[n].indented /\ Void(text[n])
      <4>1. Alike(d[n - 1], e[at[n] - 1], gone(n), seen(n))
        BY <2>3, <3>2, <3>3, <3>4, <3>8, AlikeBeside
      <4>2. ~Firm(n)
        BY <2>1, <3>8 DEF Firm
      <4> QED BY <4>1, <4>2
    <3> QED BY <3>6, <3>7, <3>8
  <2> QED BY <2>5, <2>6
<1>19. Same(end - 1)
  <2>1. end - 2 \in P
    <3>1. end - 2 \in Nat
      BY <1>3
    <3> HIDE DEF P
    <3> QED BY <1>17, <1>18, <3>1, ByInduction
  <2>2. (end - 2) + 1 = end - 1
    BY <1>3
  <2> HIDE DEF Same
  <2> QED BY <2>1, <2>2
<1>20. \A k \in gone(end - 1) : Fold(k) \in {"content_hash", "signature"}
  BY <1>10 DEF Reserved
<1>21. PICK a, b, lost, known : a = d[end - 2] /\ b = e[at[end - 1] - 1] /\ lost = gone(end - 1)
                                      /\ Alike(a, b, lost, known)
  <2>1. (end - 1) - 1 = end - 2
    BY <1>3
  <2> QED BY <1>19, <2>1
<1>22. PICK f, g : f = Outcome(a) /\ g = Outcome(b)
  OBVIOUS
<1>23. DOMAIN f \subseteq DOMAIN g \cup lost /\ DOMAIN g \subseteq DOMAIN f /\ \A x \in DOMAIN g : f[x] = g[x]
  <2>1. CASE \E k, s, h, l, t, i : a = Bad(k, s, h) /\ b = Bad(l, t, i)
    <3>1. f = <<>> /\ g = <<>>
      BY <1>22, <2>1 DEF Outcome, Bad
    <3> QED BY <3>1
  <2>2. CASE \E k, s, h, l, t, i :
               /\ a = Good(k, s, h) /\ b = Good(l, t, i) /\ s # "keep" /\ t # "keep"
               /\ SayAlike(h, i, lost, known)
    <3>1. PICK k, s, h, l, t, i : a = Good(k, s, h) /\ b = Good(l, t, i) /\ SayAlike(h, i, lost, known)
      BY <2>2
    <3>2. f = h /\ g = i
      BY <1>22, <3>1 DEF Outcome, Good
    <3> QED BY <3>1, <3>2 DEF SayAlike
  <2> QED BY <1>21, <2>1, <2>2 DEF Alike
<1>24. Yaml(front) = f /\ Yaml(kept) = g
  BY <1>8, <1>9, <1>21, <1>22
<1> DEFINE Of(says) == [k \in {k \in DOMAIN says : Fold(k) \notin {"content_hash", "signature"}} |-> says[k]]
<1>25. Of(f) = Of(g)
  <2>1. {k \in DOMAIN f : Fold(k) \notin {"content_hash", "signature"}} =
          {k \in DOMAIN g : Fold(k) \notin {"content_hash", "signature"}}
    BY <1>20, <1>21, <1>23
  <2> QED BY <1>23, <2>1
<1>26. ManifestFields(front) = Of(f) /\ ManifestFields(kept) = Of(g)
  BY <1>24 DEF ManifestFields
<1> QED BY <1>2, <1>4, <1>25, <1>26 DEF front

-----------------------------------------------------------------------------
(* The manifest while the root is that of the signed bundle.                *)

SignedTexts == \A s \in signed : IsSeq(s.dir[SkillMD].text)

LEMMA SignedTextsStep == SignedTexts /\ TextsOK /\ [Next]_vars => SignedTexts'
<1> SUFFICES ASSUME SignedTexts, TextsOK, [Next]_vars PROVE SignedTexts'
  OBVIOUS
<1>1. ASSUME NEW emit \in BOOLEAN, Sign(emit) PROVE SignedTexts'
  <2>1. SkillMD \in DOMAIN dir
    BY <1>1 DEF Sign, Loads, Files, Walked
  <2>2. IsSeq(dir[SkillMD].text)
    BY <2>1 DEF TextsOK
  <2>3. PICK leaves, oms : signed' = {[dir |-> dir, leaves |-> leaves, oms |-> oms]}
    BY <1>1 DEF Sign
  <2> QED BY <2>2, <2>3 DEF SignedTexts
<1>2. CASE UNCHANGED signed
  BY <1>2 DEF SignedTexts
<1>3. CASE Step /\ ~\E emit \in BOOLEAN : Sign(emit)
  <2>1. UNCHANGED signed
    BY <1>3 DEF Step, InsertLine, DeleteLine, AddFile, RemoveFile, Edits
  <2> QED BY <1>2, <2>1
<1>4. CASE UNCHANGED vars
  BY <1>2, <1>4 DEF vars
<1> QED BY <1>1, <1>3, <1>4 DEF Next

\* The leaf of SKILL.md under a root.
LEMMA LeafIs ==
  ASSUME NEW w, SkillMD \in Files(w)
  PROVE  BundleLeaves(LoadBundle(w))[SkillMD] = NormalizeSkillMD(w[SkillMD].text)
BY DEF BundleLeaves, LoadBundle

\* While the root is the signed one and the front matter under it is firm, the
\* manifest says what it said when it was signed, though the root leaves lines of it
\* out. (merkle.go:86-176)
THEOREM RootSignsTheManifest == Spec => []ManifestIsSigned
<1>1. ASSUME TextsOK, SignedOK, SignedTexts PROVE ManifestIsSigned
  <2> SUFFICES ASSUME NEW s \in signed, SameRoot(s), FirmFront(s.leaves[SkillMD])
               PROVE  ManifestFields(Loaded.skill.front) = ManifestFields(ParseSkillMD(s.dir[SkillMD].text).front)
    BY DEF ManifestIsSigned
  <2>1. PICK now, then, leaf : now = dir[SkillMD].text /\ then = s.dir[SkillMD].text /\ leaf = s.leaves[SkillMD]
    OBVIOUS
  <2>2. SkillMD \in Files(dir) /\ SkillMD \in Files(s.dir)
    BY <1>1 DEF SignedOK, SameRoot, Loads
  <2>3. leaf = NormalizeSkillMD(now) /\ leaf = NormalizeSkillMD(then)
    <3>1. s.leaves = BundleLeaves(LoadBundle(dir)) /\ s.leaves = BundleLeaves(LoadBundle(s.dir))
      BY <1>1 DEF SignedOK, SameRoot, Loaded
    <3> QED BY <2>1, <2>2, <3>1, LeafIs
  <2>4. now \in Seq(ToSet(now)) /\ then \in Seq(ToSet(then))
    <3>1. SkillMD \in DOMAIN dir
      BY <2>2 DEF Files, Walked
    <3> QED BY <1>1, <2>1, <3>1 DEF TextsOK, SignedTexts, IsSeq
  <2>5. FirmFront(leaf)
    BY <2>1
  <2>6. ManifestFields(ParseSkillMD(now).front) = ManifestFields(SubSeq(leaf, 2, Min(Closing(leaf, 2)) - 1))
    BY ONLY <2>3, <2>4, <2>5, LeafSaysTheSame
  <2>7. ManifestFields(ParseSkillMD(then).front) = ManifestFields(SubSeq(leaf, 2, Min(Closing(leaf, 2)) - 1))
    BY ONLY <2>3, <2>4, <2>5, LeafSaysTheSame
  <2>8. Loaded.skill = ParseSkillMD(now)
    BY <2>1 DEF Loaded, LoadBundle
  <2> QED BY <2>1, <2>6, <2>7, <2>8
<1>2. Init => TextsOK /\ SignedOK /\ SignedTexts
  <2>1. Init => signed = {}
    BY DEF Init
  <2> QED BY <2>1, TextsInit DEF SignedOK, SignedTexts
<1>3. (TextsOK /\ SignedOK /\ SignedTexts) /\ [Next]_vars => (TextsOK /\ SignedOK /\ SignedTexts)'
  BY TextsStep, SignedStep, SignedTextsStep
<1>4. TextsOK /\ SignedOK /\ SignedTexts => ManifestIsSigned
  BY <1>1
<1> QED BY <1>2, <1>3, <1>4, PTL DEF Spec

-----------------------------------------------------------------------------
(* What a scan says outside the front matter.                               *)

\* The first line of a file's target, when the body of SKILL.md begins below line o.
TopOf(file, o) == IF file = SkillMD THEN o ELSE 0
\* One text in two bundles, whose front matters end at o and at p.
Same(t, o, s, p) ==
  /\ t.name = s.name /\ t.lang = s.lang /\ t.file = s.file /\ t.text = s.text /\ IsSeq(t.text)
  /\ t.offset = TopOf(t.file, o) /\ s.offset = TopOf(s.file, p)
\* The front matter, which ends above line o.
IsFrontTarget(t, o) ==
  /\ t.name = "manifest" /\ t.lang = "" /\ t.file = SkillMD /\ t.offset = 1
  /\ IsSeq(t.text) /\ Len(t.text) + 1 < o /\ 2 < o
\* All that is not front matter is in the other bundle, too.
Paired(T, o, U, p) ==
  /\ o \in Nat /\ p \in Nat
  /\ \A t \in T : IsFrontTarget(t, o) \/ \E s \in U : Same(t, o, s, p)
  /\ (\E t \in T : IsFrontTarget(t, o)) => \E s \in U : IsFrontTarget(s, p)

\* How sure a match is, and which is the surest, is a matter of name and text.
LEMMA SameConfidence ==
  ASSUME NEW t, NEW s, t.name = s.name, t.text = s.text, NEW m
  PROVE  Confidence(t, m) = Confidence(s, m)
BY DEF Confidence, Modifier

LEMMA SameSurest ==
  ASSUME NEW t, NEW s, t.name = s.name, t.text = s.text, NEW some
  PROVE  Surest(t, some) = Surest(s, some)
<1>1. \A m : Confidence(t, m) = Confidence(s, m)
  BY SameConfidence
<1> QED BY <1>1 DEF Surest

\* A finding is one for its match, and one in every target of that name and text.
LEMMA EvaluateAt ==
  ASSUME NEW r, IsRule(r), NEW n, NEW t, IsSeq(t.text), NEW f \in Evaluate(r, n, t)
  PROVE  \E m : /\ m.line \in DOMAIN t.text \cup {1} /\ f = FindingAt(r, n, t, m)
                /\ \A s : s.name = t.name /\ s.text = t.text => FindingAt(r, n, s, m) \in Evaluate(r, n, s)
<1> DEFINE all == Eval(r.match, r.confidence, t.text)
           sure(u) == {m \in Eval(r.match, r.confidence, u.text) :
                         /\ Confidence(u, m) >= EmitThreshold
                         /\ m.line \in DOMAIN u.text => ~Suppressed(r, u.text[m.line])}
           of(u, m) == {k \in sure(u) : k.line = m.line}
<1>1. IsFiniteSet(all) /\ \A m \in all : IsMatch(m) /\ m.line \in DOMAIN t.text \cup {1}
  BY EvalIs, EvalLines DEF IsRule
<1>2. \A u : Evaluate(r, n, u) = {FindingAt(r, n, u, Surest(u, of(u, m))) : m \in sure(u)}
  BY DEF Evaluate
<1>3. sure(t) \subseteq all
  OBVIOUS
<1>4. PICK m \in sure(t) : f = FindingAt(r, n, t, Surest(t, of(t, m)))
  BY <1>2
<1>5. PICK k : k = Surest(t, of(t, m))
  OBVIOUS
<1>6. k \in all
  <2>1. of(t, m) \subseteq all /\ m \in of(t, m)
    BY <1>3
  <2> HIDE DEF of, all
  <2>2. IsFiniteSet(of(t, m)) /\ \A x \in of(t, m) : IsMatch(x)
    BY <1>1, <2>1, FS_Subset
  <2>3. Surest(t, of(t, m)) \in of(t, m)
    BY <2>1, <2>2, SurestIs
  <2> QED BY <1>5, <2>1, <2>3
<1>7. ASSUME NEW s, s.name = t.name, s.text = t.text PROVE FindingAt(r, n, s, k) \in Evaluate(r, n, s)
  <2>1. \A x : Confidence(s, x) = Confidence(t, x)
    BY <1>7, SameConfidence
  <2>2. sure(s) = sure(t)
    BY <1>7, <2>1
  <2>3. of(s, m) = of(t, m)
    BY <2>2
  <2> HIDE DEF of, sure
  <2>4. Surest(s, of(s, m)) = k
    BY <1>5, <1>7, <2>3, SameSurest
  <2> QED BY <1>2, <1>4, <2>2, <2>4
<1> HIDE DEF of, sure, all
<1> QED BY <1>1, <1>4, <1>5, <1>6, <1>7

\* One finding in two bundles, each time as far below the front matter.
IsFinding(h) ==
  h = [rule |-> h.rule, nth |-> h.nth, severity |-> h.severity, original |-> h.original, layer |-> h.layer,
       file |-> h.file, line |-> h.line, excerpt |-> h.excerpt, confidence |-> h.confidence]
Twin(h, o, k, p) ==
  /\ IsFinding(h) /\ IsFinding(k)
  /\ h.rule = k.rule /\ h.nth = k.nth /\ h.severity = k.severity /\ h.original = k.original /\ h.layer = k.layer
  /\ h.file = k.file /\ h.excerpt = k.excerpt /\ h.confidence = k.confidence
  /\ h.line \in Int /\ k.line \in Int /\ h.line > TopOf(h.file, o)
  /\ h.line - TopOf(h.file, o) = k.line - TopOf(k.file, p)
Lies(h, o) == h.file = SkillMD => h.line > o

LEMMA FindingFields ==
  ASSUME NEW r, NEW n, NEW t, NEW m
  PROVE  LET f == FindingAt(r, n, t, m)
         IN /\ IsFinding(f) /\ f.rule = r.id /\ f.nth = n /\ f.severity = r.severity /\ f.original = r.severity
            /\ f.layer = r.layer /\ f.file = t.file /\ f.line = m.line + t.offset /\ f.excerpt = m.excerpt
            /\ f.confidence = Confidence(t, m)
BY DEF FindingAt, IsFinding

LEMMA TwinsAreTwins ==
  ASSUME NEW h, NEW k, NEW o \in Nat, NEW p \in Nat, Twin(h, o, k, p)
  PROVE  Twin(k, p, h, o) /\ Lies(h, o) /\ Lies(k, p)
BY DEF Twin, Lies, TopOf

LEMMA OnlyTwin ==
  ASSUME NEW h, NEW g, NEW k, NEW o \in Nat, NEW p \in Nat, Twin(h, o, k, p), Twin(g, o, k, p)
  PROVE  h = g
<1>1. /\ h.rule = g.rule /\ h.nth = g.nth /\ h.severity = g.severity /\ h.original = g.original /\ h.layer = g.layer
      /\ h.file = g.file /\ h.excerpt = g.excerpt /\ h.confidence = g.confidence
  BY DEF Twin
<1>2. h.line = g.line
  BY <1>1 DEF Twin, TopOf
<1> QED BY <1>1, <1>2 DEF Twin, IsFinding

\* Every finding below the front matter is made in the other bundle, too.
LEMMA TwinHits ==
  ASSUME NEW rules, \A i \in DOMAIN rules : IsRule(rules[i]),
         NEW T, NEW U, NEW o, NEW p, Paired(T, o, U, p), NEW h \in Hits(rules, T), Lies(h, o)
  PROVE  \E k \in Hits(rules, U) : Twin(h, o, k, p)
<1>1. PICK n \in DOMAIN rules, t \in T : AppliesTo(rules[n], t) /\ h \in Evaluate(rules[n], n, t)
  BY HitsAre
<1>2. PICK r : r = rules[n]
  OBVIOUS
<1>3. o \in Nat /\ p \in Nat /\ IsRule(r)
  BY <1>2 DEF Paired
<1>4. IsSeq(t.text)
  BY DEF Paired, IsFrontTarget, Same
<1>5. PICK m : /\ m.line \in DOMAIN t.text \cup {1} /\ h = FindingAt(r, n, t, m)
               /\ \A s : s.name = t.name /\ s.text = t.text => FindingAt(r, n, s, m) \in Evaluate(r, n, s)
  BY <1>1, <1>2, <1>3, <1>4, EvaluateAt
<1>6. m.line \in Nat /\ m.line >= 1 /\ (m.line <= Len(t.text) \/ m.line = 1)
  BY <1>4, <1>5 DEF IsSeq
<1>7. ~IsFrontTarget(t, o)
  <2> SUFFICES ASSUME IsFrontTarget(t, o) PROVE FALSE
    OBVIOUS
  <2>0. t.file = SkillMD /\ t.offset = 1 /\ Len(t.text) + 1 < o /\ 2 < o
    BY DEF IsFrontTarget
  <2>1. h.file = SkillMD /\ h.line = m.line + 1
    BY <1>5, <2>0, FindingFields
  <2>2. m.line + 1 <= o
    <3>1. Len(t.text) \in Nat
      BY <1>4 DEF IsSeq
    <3> QED BY <1>3, <1>6, <2>0, <3>1
  <2> QED BY <1>3, <1>6, <2>1, <2>2 DEF Lies
<1>8. PICK s \in U : Same(t, o, s, p)
  BY <1>7 DEF Paired
<1>9. PICK k : k = FindingAt(r, n, s, m)
  OBVIOUS
<1>10. k \in Hits(rules, U)
  <2>1. AppliesTo(r, s)
    BY <1>1, <1>2, <1>8 DEF AppliesTo, Same
  <2>2. k \in Evaluate(r, n, s)
    BY <1>5, <1>8, <1>9 DEF Same
  <2> QED BY <1>2, <2>1, <2>2, HitsAre
<1>11. Twin(h, o, k, p)
  <2>1. /\ IsFinding(h) /\ h.rule = r.id /\ h.nth = n /\ h.severity = r.severity /\ h.original = r.severity
        /\ h.layer = r.layer /\ h.file = t.file /\ h.line = m.line + t.offset /\ h.excerpt = m.excerpt
        /\ h.confidence = Confidence(t, m)
    BY <1>5, FindingFields
  <2>2. /\ IsFinding(k) /\ k.rule = r.id /\ k.nth = n /\ k.severity = r.severity /\ k.original = r.severity
        /\ k.layer = r.layer /\ k.file = s.file /\ k.line = m.line + s.offset /\ k.excerpt = m.excerpt
        /\ k.confidence = Confidence(s, m)
    BY <1>9, FindingFields
  <2>3. Confidence(t, m) = Confidence(s, m) /\ t.file = s.file
    BY <1>8, SameConfidence DEF Same
  <2>4. t.offset = TopOf(t.file, o) /\ s.offset = TopOf(t.file, p) /\ TopOf(t.file, o) \in Nat /\ TopOf(t.file, p) \in Nat
    BY <1>3, <1>8 DEF Same, TopOf
  <2>5. h.line \in Int /\ k.line \in Int /\ h.line > TopOf(h.file, o) /\ h.line - TopOf(h.file, o) = k.line - TopOf(k.file, p)
    BY <1>6, <2>1, <2>2, <2>3, <2>4
  <2> QED BY <2>1, <2>2, <2>3, <2>5 DEF Twin
<1> QED BY <1>10, <1>11

\* What is folded in one bundle is folded in the other.
LEMMA TwinDedup ==
  ASSUME NEW rules, \A i \in DOMAIN rules : IsRule(rules[i]),
         NEW T, NEW U, NEW o, NEW p, Paired(T, o, U, p), Paired(U, p, T, o),
         NEW h \in Dedup(Hits(rules, T)), Lies(h, o)
  PROVE  \E k \in Dedup(Hits(rules, U)) : Twin(h, o, k, p)
<1>1. h \in Hits(rules, T) /\ \A g \in Hits(rules, T) \ {h} : SameKey(h, g) => Surer(h, g)
  BY DEF Dedup
<1>2. PICK k \in Hits(rules, U) : Twin(h, o, k, p)
  BY <1>1, TwinHits
<1>3. o \in Nat /\ p \in Nat
  BY DEF Paired
<1>4. ASSUME NEW g \in Hits(rules, U) \ {k}, SameKey(k, g) PROVE Surer(k, g)
  <2>1. Lies(g, p)
    <3>1. Lies(k, p)
      BY <1>2, <1>3, TwinsAreTwins
    <3> QED BY <1>4, <3>1 DEF Lies, SameKey
  <2>2. PICK f \in Hits(rules, T) : Twin(g, p, f, o)
    BY <2>1, TwinHits
  <2>3. Twin(f, o, g, p)
    BY <1>3, <2>2, TwinsAreTwins
  <2>4. f # h
    <3> SUFFICES ASSUME f = h PROVE FALSE
      OBVIOUS
    <3>1. Twin(k, p, h, o)
      BY <1>2, <1>3, TwinsAreTwins
    <3>2. g = k
      BY <1>3, <2>2, <3>1, OnlyTwin
    <3> QED BY <3>2
  <2>5. h.file = k.file /\ f.file = g.file /\ k.file = g.file
    BY <1>2, <1>4, <2>3 DEF Twin, SameKey
  <2>6. SameKey(h, f)
    <3>1. h.rule = k.rule /\ k.rule = g.rule /\ f.rule = g.rule
      BY <1>2, <1>4, <2>3 DEF Twin, SameKey
    <3>2. h.line = f.line
      BY <1>2, <1>3, <1>4, <2>3, <2>5 DEF Twin, SameKey, TopOf
    <3> QED BY <2>5, <3>1, <3>2 DEF SameKey
  <2>7. Surer(h, f)
    BY <1>1, <2>4, <2>6
  <2> QED BY <1>2, <2>3, <2>7 DEF Surer, Twin
<1> QED BY <1>2, <1>4 DEF Dedup

\* Where a context rule lowers a finding.
LowersAt(c, t, h) ==
  /\ AppliesTo(c, t) /\ AppliesToPath(c, t.file) /\ t.file = h.file
  /\ 0 \in Spans(c, t) \/ h.line \in Spans(c, t)
  /\ c.layers = {} \/ h.layer \in c.layers
Ceilings(contexts, targets, h) == {x \in {c.max : c \in contexts} : \E c \in contexts, t \in targets : x = c.max /\ LowersAt(c, t, h)}
HasPlace(c) == c.scope = "file" => c.match = PathOnly \/ (c.targets # {} /\ "manifest" \notin c.targets)
MatchedLines(c, t) == {m.line : m \in Eval(c.match, 100, t.text)}

LEMMA CapIs ==
  ASSUME NEW contexts, NEW targets, NEW h
  PROVE  LET low == Ceilings(contexts, targets, h)
         IN ApplyCaps(ContextCaps(contexts, targets), h) =
              IF low = {} \/ h.severity <= Min(low) THEN h ELSE [h EXCEPT !.severity = Min(low)]
<1> DEFINE caps == ContextCaps(contexts, targets)
           over(cap) == /\ cap.file = h.file
                        /\ {0, h.line} \cap cap.lines # {}
                        /\ cap.layers = {} \/ h.layer \in cap.layers
           low == {cap.max : cap \in {cap \in caps : over(cap)}}
           capOf(c, t) == [max |-> c.max, layers |-> c.layers, file |-> t.file, lines |-> Spans(c, t)]
<1>1. \A cap : cap \in caps <=> \E c \in contexts, t \in targets :
                 AppliesTo(c, t) /\ AppliesToPath(c, t.file) /\ cap = capOf(c, t)
  <2> DEFINE fit == {ct \in contexts \X targets : AppliesTo(ct[1], ct[2]) /\ AppliesToPath(ct[1], ct[2].file)}
  <2>1. caps = {capOf(ct[1], ct[2]) : ct \in fit}
    BY DEF ContextCaps
  <2>2. ASSUME NEW c \in contexts, NEW t \in targets, AppliesTo(c, t), AppliesToPath(c, t.file)
        PROVE  capOf(c, t) \in caps
    <3>1. <<c, t>> \in fit /\ <<c, t>>[1] = c /\ <<c, t>>[2] = t
      BY <2>2
    <3> HIDE DEF caps, capOf, fit
    <3> QED BY <2>1, <3>1
  <2>3. ASSUME NEW cap \in caps
        PROVE  \E c \in contexts, t \in targets : AppliesTo(c, t) /\ AppliesToPath(c, t.file) /\ cap = capOf(c, t)
    <3>1. PICK ct \in fit : cap = capOf(ct[1], ct[2])
      BY <2>1
    <3> HIDE DEF caps, capOf
    <3> QED BY <3>1
  <2> HIDE DEF caps, capOf
  <2> QED BY <2>2, <2>3
<1>2. \A c, t : over(capOf(c, t)) <=> /\ t.file = h.file /\ (0 \in Spans(c, t) \/ h.line \in Spans(c, t))
                                      /\ c.layers = {} \/ h.layer \in c.layers
  OBVIOUS
<1>3. \A c, t : capOf(c, t).max = c.max
  OBVIOUS
<1>4. ApplyCaps(caps, h) = IF low = {} \/ h.severity <= Min(low) THEN h ELSE [h EXCEPT !.severity = Min(low)]
  BY DEF ApplyCaps
<1> HIDE DEF caps, over, capOf
<1>5. ASSUME NEW x \in low PROVE x \in Ceilings(contexts, targets, h)
  <2>1. PICK cap \in caps : over(cap) /\ x = cap.max
    OBVIOUS
  <2>2. PICK c \in contexts, t \in targets : AppliesTo(c, t) /\ AppliesToPath(c, t.file) /\ cap = capOf(c, t)
    BY <1>1, <2>1
  <2>3. LowersAt(c, t, h) /\ x = c.max
    BY <1>2, <1>3, <2>1, <2>2 DEF LowersAt
  <2> QED BY <2>3 DEF Ceilings
<1>6. ASSUME NEW x \in Ceilings(contexts, targets, h) PROVE x \in low
  <2>1. PICK c \in contexts, t \in targets : x = c.max /\ LowersAt(c, t, h)
    BY DEF Ceilings
  <2>2. PICK cap : cap = capOf(c, t)
    OBVIOUS
  <2>3. cap \in caps /\ over(cap) /\ x = cap.max
    BY <1>1, <1>2, <1>3, <2>1, <2>2 DEF LowersAt
  <2> QED BY <2>3
<1>7. low = Ceilings(contexts, targets, h)
  BY <1>5, <1>6
<1> HIDE DEF low
<1> QED BY <1>4, <1>7 DEF caps

LEMMA SpansAre ==
  ASSUME NEW c, IsContext(c), NEW t, IsSeq(t.text)
  PROVE  /\ MatchedLines(c, t) \subseteq DOMAIN t.text \cup {1}
         /\ SectionLines(t.text, MatchedLines(c, t)) \subseteq DOMAIN t.text
         /\ Spans(c, t) = IF c.scope = "file" THEN (IF c.match = PathOnly \/ MatchedLines(c, t) # {} THEN {0} ELSE {})
                          ELSE IF c.scope = "line" THEN {n + t.offset : n \in MatchedLines(c, t)}
                          ELSE IF IsProse(t.name) THEN {n + t.offset : n \in SectionLines(t.text, MatchedLines(c, t))}
                          ELSE {}
<1>1. MatchedLines(c, t) \subseteq DOMAIN t.text \cup {1}
  BY EvalLines DEF MatchedLines, IsContext
<1>2. SectionLines(t.text, MatchedLines(c, t)) \subseteq DOMAIN t.text
  BY DEF SectionLines
<1>3. Spans(c, t) = IF c.scope = "file" THEN (IF c.match = PathOnly \/ MatchedLines(c, t) # {} THEN {0} ELSE {})
                    ELSE IF c.scope = "line" THEN {n + t.offset : n \in MatchedLines(c, t)}
                    ELSE IF IsProse(t.name) THEN {n + t.offset : n \in SectionLines(t.text, MatchedLines(c, t))}
                    ELSE {}
  <2>1. CASE c.scope = "file"
    BY <2>1 DEF Spans, MatchedLines
  <2>2. CASE c.scope = "line"
    BY <2>2 DEF Spans, MatchedLines
  <2>3. CASE c.scope = "section"
    BY <2>3 DEF Spans, MatchedLines
  <2> QED BY <2>1, <2>2, <2>3 DEF IsContext
<1> QED BY <1>1, <1>2, <1>3

\* A context rule in place lowers a finding below the front matter in both bundles.
LEMMA FrontLowersAll ==
  ASSUME NEW c, IsContext(c), HasPlace(c), NEW t, NEW o \in Nat, IsFrontTarget(t, o),
         NEW h, h.line \in Int, h.line > o, LowersAt(c, t, h)
  PROVE  c.scope = "file" /\ c.match = PathOnly
<1>1. /\ IsSeq(t.text) /\ t.offset = 1 /\ Len(t.text) + 1 < o /\ 2 < o
      /\ t.name = "manifest"
  BY DEF IsFrontTarget
<1>2. Len(t.text) \in Nat /\ DOMAIN t.text = 1..Len(t.text)
  BY <1>1 DEF IsSeq
<1>3. \A n \in DOMAIN t.text \cup {1} : n \in Nat /\ n + 1 > 0 /\ n + 1 < o + 1
  BY <1>1, <1>2
<1>4. 0 \in Spans(c, t) \/ h.line \in Spans(c, t)
  BY DEF LowersAt
<1>5. ASSUME NEW S, S \subseteq DOMAIN t.text \cup {1}, Spans(c, t) = {n + t.offset : n \in S} PROVE FALSE
  <2>1. PICK n \in S : n + 1 = 0 \/ n + 1 = h.line
    BY <1>1, <1>4, <1>5
  <2> QED BY <1>3, <1>5, <2>1
<1>6. c.scope = "file"
  <2> SUFFICES ASSUME c.scope # "file" PROVE FALSE
    OBVIOUS
  <2>1. /\ MatchedLines(c, t) \subseteq DOMAIN t.text \cup {1}
        /\ SectionLines(t.text, MatchedLines(c, t)) \subseteq DOMAIN t.text \cup {1}
    BY <1>1, SpansAre
  <2>2. \/ Spans(c, t) = {n + t.offset : n \in MatchedLines(c, t)}
        \/ Spans(c, t) = {n + t.offset : n \in SectionLines(t.text, MatchedLines(c, t))}
        \/ Spans(c, t) = {}
    BY <1>1, SpansAre
  <2> QED BY <1>4, <1>5, <2>1, <2>2
<1>7. c.match = PathOnly
  <2> SUFFICES ASSUME c.targets # {}, "manifest" \notin c.targets PROVE FALSE
    BY <1>6 DEF HasPlace
  <2>1. ~AppliesTo(c, t)
    BY <1>1 DEF AppliesTo
  <2> QED BY <2>1 DEF LowersAt
<1> QED BY <1>6, <1>7

LEMMA TwinLowers ==
  ASSUME NEW c, IsContext(c), HasPlace(c),
         NEW T, NEW U, NEW o, NEW p, Paired(T, o, U, p), NEW t \in T,
         NEW h, NEW k, Twin(h, o, k, p), LowersAt(c, t, h)
  PROVE  \E s \in U : LowersAt(c, s, k)
<1>1. o \in Nat /\ p \in Nat
  BY DEF Paired
<1>2. /\ h.file = k.file /\ h.layer = k.layer /\ h.line \in Int /\ k.line \in Int
      /\ h.line > TopOf(h.file, o) /\ h.line - TopOf(h.file, o) = k.line - TopOf(k.file, p)
  BY DEF Twin
<1>3. /\ AppliesTo(c, t) /\ AppliesToPath(c, t.file) /\ t.file = h.file
      /\ 0 \in Spans(c, t) \/ h.line \in Spans(c, t)
      /\ c.layers = {} \/ h.layer \in c.layers
  BY DEF LowersAt
<1>4. CASE IsFrontTarget(t, o)
  <2>1. PICK s \in U : IsFrontTarget(s, p)
    BY <1>4 DEF Paired
  <2>2. t.file = SkillMD /\ s.file = SkillMD /\ t.name = s.name /\ t.lang = s.lang /\ IsSeq(s.text)
    BY <1>4, <2>1 DEF IsFrontTarget
  <2>3. c.scope = "file" /\ c.match = PathOnly
    <3>1. h.line > o
      BY <1>2, <1>3, <2>2 DEF TopOf
    <3> QED BY <1>1, <1>2, <1>4, <3>1, FrontLowersAll
  <2>4. 0 \in Spans(c, s)
    BY <2>2, <2>3, SpansAre
  <2>5. AppliesTo(c, s)
    BY <1>3, <2>2 DEF AppliesTo
  <2> QED BY <1>2, <1>3, <2>1, <2>2, <2>4, <2>5 DEF LowersAt
<1>5. CASE ~IsFrontTarget(t, o)
  <2>1. PICK s \in U : Same(t, o, s, p)
    BY <1>5 DEF Paired
  <2>2. /\ t.name = s.name /\ t.lang = s.lang /\ t.file = s.file /\ t.text = s.text /\ IsSeq(t.text)
        /\ t.offset = TopOf(h.file, o) /\ s.offset = TopOf(k.file, p)
    BY <1>2, <1>3, <2>1 DEF Same
  <2>3. AppliesTo(c, s) /\ IsProse(t.name) = IsProse(s.name) /\ MatchedLines(c, t) = MatchedLines(c, s)
    BY <1>3, <2>2 DEF AppliesTo, MatchedLines
  <2>4. TopOf(h.file, o) \in Nat /\ TopOf(k.file, p) \in Nat
    BY <1>1 DEF TopOf
  <2>5. \A n \in DOMAIN t.text \cup {1} : n \in Nat /\ n >= 1
    BY <2>2 DEF IsSeq
  <2>6. ASSUME NEW S, S \subseteq DOMAIN t.text \cup {1},
               Spans(c, t) = {n + t.offset : n \in S}, Spans(c, s) = {n + s.offset : n \in S}
        PROVE  k.line \in Spans(c, s)
    <3>1. PICK n \in S : n + t.offset = 0 \/ n + t.offset = h.line
      BY <1>3, <2>6
    <3>2. n + s.offset = k.line
      BY <1>2, <2>2, <2>4, <2>5, <2>6, <3>1
    <3> QED BY <2>6, <3>2
  <2>7. /\ MatchedLines(c, t) \subseteq DOMAIN t.text \cup {1}
        /\ SectionLines(t.text, MatchedLines(c, t)) \subseteq DOMAIN t.text \cup {1}
    BY <2>2, SpansAre
  <2>8. 0 \in Spans(c, s) \/ k.line \in Spans(c, s)
    <3>1. CASE c.scope = "file"
      <4>1. Spans(c, t) = Spans(c, s) /\ (Spans(c, t) = {0} \/ Spans(c, t) = {})
        BY <2>2, <2>3, <3>1, SpansAre
      <4> QED BY <1>3, <4>1
    <3>2. CASE c.scope = "line"
      <4>1. /\ Spans(c, t) = {n + t.offset : n \in MatchedLines(c, t)}
            /\ Spans(c, s) = {n + s.offset : n \in MatchedLines(c, t)}
        BY <2>2, <2>3, <3>2, SpansAre
      <4> QED BY <2>6, <2>7, <4>1
    <3>3. CASE c.scope = "section" /\ IsProse(t.name)
      <4>1. /\ Spans(c, t) = {n + t.offset : n \in SectionLines(t.text, MatchedLines(c, t))}
            /\ Spans(c, s) = {n + s.offset : n \in SectionLines(t.text, MatchedLines(c, t))}
        BY <2>2, <2>3, <3>3, SpansAre
      <4> QED BY <2>6, <2>7, <4>1
    <3>4. CASE c.scope = "section" /\ ~IsProse(t.name)
      <4>1. Spans(c, t) = {}
        BY <2>2, <3>4, SpansAre
      <4> QED BY <1>3, <4>1
    <3> QED BY <3>1, <3>2, <3>3, <3>4 DEF IsContext
  <2> QED BY <1>2, <1>3, <2>1, <2>2, <2>3, <2>8 DEF LowersAt
<1> QED BY <1>4, <1>5

\* Lowered, too, they are one finding.
Below(f, o) == [f EXCEPT !.line = IF f.file = SkillMD THEN @ - o ELSE @]

LEMMA TwinCapped ==
  ASSUME NEW contexts, \A c \in contexts : IsContext(c) /\ HasPlace(c),
         NEW T, NEW U, NEW o, NEW p, Paired(T, o, U, p), Paired(U, p, T, o),
         NEW h, NEW k, Twin(h, o, k, p)
  PROVE  LET f == ApplyCaps(ContextCaps(contexts, T), h)
             g == ApplyCaps(ContextCaps(contexts, U), k)
         IN /\ Below(f, o) = Below(g, p)
            /\ f.file = h.file /\ f.line = h.line /\ g.file = k.file /\ g.line = k.line
<1>1. Twin(k, p, h, o)
  BY TwinsAreTwins DEF Paired
<1>2. Ceilings(contexts, T, h) = Ceilings(contexts, U, k)
  <2>1. \A c \in contexts : (\E t \in T : LowersAt(c, t, h)) <=> \E s \in U : LowersAt(c, s, k)
    BY <1>1, TwinLowers
  <2> QED BY <2>1 DEF Ceilings
<1>3. PICK x : /\ ApplyCaps(ContextCaps(contexts, T), h) = [h EXCEPT !.severity = x]
               /\ ApplyCaps(ContextCaps(contexts, U), k) = [k EXCEPT !.severity = x]
  <2>1. PICK low : low = Ceilings(contexts, T, h)
    OBVIOUS
  <2>2. /\ ApplyCaps(ContextCaps(contexts, T), h) =
             IF low = {} \/ h.severity <= Min(low) THEN h ELSE [h EXCEPT !.severity = Min(low)]
        /\ ApplyCaps(ContextCaps(contexts, U), k) =
             IF low = {} \/ k.severity <= Min(low) THEN k ELSE [k EXCEPT !.severity = Min(low)]
    BY <1>2, <2>1, CapIs
  <2>3. h.severity = k.severity /\ h = [h EXCEPT !.severity = h.severity] /\ k = [k EXCEPT !.severity = h.severity]
    BY DEF Twin, IsFinding
  <2> QED BY <2>2, <2>3
<1>4. h.file = k.file /\ h.line - TopOf(h.file, o) = k.line - TopOf(k.file, p) /\ h.line \in Int /\ k.line \in Int
  BY DEF Twin
<1>5. (IF h.file = SkillMD THEN h.line - o ELSE h.line) = IF k.file = SkillMD THEN k.line - p ELSE k.line
  BY <1>4 DEF TopOf
<1>6. ASSUME NEW f, f = [h EXCEPT !.severity = x], NEW g, g = [k EXCEPT !.severity = x]
      PROVE  Below(f, o) = Below(g, p) /\ f.file = h.file /\ f.line = h.line /\ g.file = k.file /\ g.line = k.line
  <2>1. PICK n : n = IF h.file = SkillMD THEN h.line - o ELSE h.line
    OBVIOUS
  <2>2. f.file = h.file /\ f.line = h.line /\ g.file = k.file /\ g.line = k.line
    BY <1>6 DEF Twin, IsFinding
  <2>3. Below(f, o) = [f EXCEPT !.line = n] /\ Below(g, p) = [g EXCEPT !.line = n]
    BY <1>5, <2>1, <2>2 DEF Below
  <2>4. [f EXCEPT !.line = n] = [g EXCEPT !.line = n]
    BY <1>6 DEF Twin, IsFinding
  <2> QED BY <2>2, <2>3, <2>4
<1> QED BY <1>3, <1>6

\* The root covers the body as it is: its leaf ends with it.
LEMMA BodyIsUnderTheRoot ==
  ASSUME NEW S, NEW text \in Seq(S), NEW leaf, leaf = NormalizeSkillMD(text), Block(leaf) # {}
  PROVE  LET sk == ParseSkillMD(text)
         IN /\ \E end \in 3..Len(text) : Split(sk, S, text, end)
            /\ sk.body = SubSeq(leaf, Min(Closing(leaf, 2)) + 1, Len(leaf))
<1> DEFINE N == Len(text)
           K == DOMAIN text \ Dropped(text)
<1>1. PICK end \in 3..N : \E at :
        /\ Places(at, text, K, leaf)
        /\ Block(text) = 2..(end - 1)
        /\ ParseSkillMD(text).front = SubSeq(text, 2, end - 1)
        /\ Min(Closing(leaf, 2)) = at[end] /\ leaf \in Seq(S) /\ at[end] <= Len(leaf)
  BY LeafEnds
<1>2. PICK at :
        /\ Places(at, text, K, leaf)
        /\ Block(text) = 2..(end - 1)
        /\ ParseSkillMD(text).front = SubSeq(text, 2, end - 1)
        /\ Min(Closing(leaf, 2)) = at[end] /\ leaf \in Seq(S) /\ at[end] <= Len(leaf)
  BY <1>1
<1>3. N \in Nat /\ DOMAIN text = 1..N /\ \A i \in 1..N : text[i] \in S
  OBVIOUS
<1>15. end \in Nat /\ 3 <= end /\ end <= N /\ N - end \in Nat
  BY <1>3
<1>4. PICK sk : sk = ParseSkillMD(text)
  OBVIOUS
<1>5. Split(sk, S, text, end)
  <2>1. Len(SubSeq(text, 2, end - 1)) = end - 2
    BY <1>1, <1>3
  <2>2. Len(sk.front) = end - 2
    BY <1>2, <1>4, <2>1
  <2>3. ~Undivided(sk, text)
    <3>1. Undivided(sk, text) => sk.front = <<>>
      BY DEF Undivided
    <3> QED BY <1>1, <2>2, <3>1
  <2>4. PICK e \in 3..Len(text) : Split(sk, S, text, e)
    BY <1>4, <2>3, ParsedIs
  <2>5. e = end
    BY <1>1, <2>2, <2>4 DEF Split
  <2> QED BY <2>4, <2>5
<1>6. /\ at \in [0..N -> Nat] /\ Len(leaf) = at[N]
      /\ \A n \in 1..N : at[n] = IF n \in K THEN at[n - 1] + 1 ELSE at[n - 1]
      /\ \A n \in K \cap (1..N) : leaf[at[n]] = text[n]
  BY <1>2 DEF Places
<1>7. \A n \in (end + 1)..N : n \in K
  <2>1. Dropped(text) \subseteq 2..(end - 1)
    BY <1>2 DEF Dropped
  <2> QED BY <1>1, <1>3, <2>1
<1> HIDE DEF K
<1>8. \A j \in 0..(N - end) : at[end + j] = at[end] + j
  <2> DEFINE P == {j \in Nat : j <= N - end => at[end + j] = at[end] + j}
  <2>1. 0 \in P
    <3>1. end \in 0..N
      BY <1>3, <1>15
    <3>2. at[end] \in Nat
      BY <1>6, <3>1
    <3>3. end + 0 = end /\ at[end] + 0 = at[end]
      BY ONLY <1>15, <3>2
    <3>4. at[end + 0] = at[end] + 0
      BY ONLY <3>3
    <3> QED BY <3>4
  <2>2. ASSUME NEW j \in Nat, j \in P PROVE j + 1 \in P
    <3> SUFFICES ASSUME j + 1 <= N - end PROVE at[end + (j + 1)] = at[end] + (j + 1)
      OBVIOUS
    <3>1. end + (j + 1) \in (end + 1)..N /\ (end + (j + 1)) - 1 = end + j
      BY <1>1, <1>3
    <3>2. at[end + (j + 1)] = at[end + j] + 1
      BY <1>1, <1>3, <1>6, <1>7, <3>1
    <3>3. at[end + j] = at[end] + j /\ at[end] \in Nat
      <4>1. j <= N - end /\ end \in 0..N
        BY <1>3, <1>15
      <4> QED BY <1>6, <2>2, <4>1
    <3>4. j \in Nat
      OBVIOUS
    <3>5. \A a, b \in Nat : (a + b) + 1 = a + (b + 1)
      OBVIOUS
    <3> QED BY ONLY <3>2, <3>3, <3>4, <3>5
  <2> HIDE DEF P
  <2>3. Nat \subseteq P
    BY <2>1, <2>2, ByInduction
  <2> QED BY <1>1, <1>3, <2>3 DEF P
<1>9. PICK shut, M : shut = at[end] /\ M = Len(leaf)
  OBVIOUS
<1>10. shut \in Nat /\ M = shut + (N - end) /\ \A i \in 1..M : leaf[i] \in S
  <2>1. at[end + (N - end)] = at[end] + (N - end) /\ end + (N - end) = N
    BY <1>1, <1>3, <1>8
  <2>2. at[end] \in Nat
    BY <1>1, <1>6
  <2>3. \A i \in 1..M : leaf[i] \in S
    BY <1>2, <1>9
  <2> QED BY <1>6, <1>9, <2>1, <2>2, <2>3
<1>11. PICK rest : rest = SubSeq(leaf, shut + 1, M)
  OBVIOUS
<1>12. rest \in Seq(S) /\ Len(rest) = N - end /\ \A i \in 1..(N - end) : rest[i] = leaf[i + shut]
  <2>1. \A i \in (shut + 1)..M : leaf[i] \in S
    BY <1>10
  <2>2. /\ rest \in Seq(S) /\ Len(rest) = (IF shut + 1 <= M THEN M - (shut + 1) + 1 ELSE 0)
        /\ \A i \in 1..(M - (shut + 1) + 1) : rest[i] = leaf[(shut + 1) + i - 1]
    <3>1. shut + 1 \in Int /\ M \in Int
      BY <1>10, <1>15
    <3> QED BY ONLY <1>11, <2>1, <3>1, SubSeqProperties
  <2>3. /\ M - (shut + 1) + 1 = N - end /\ (IF shut + 1 <= M THEN M - (shut + 1) + 1 ELSE 0) = N - end
        /\ \A i \in 1..(N - end) : (shut + 1) + i - 1 = i + shut
    <3>1. PICK d : d = N - end
      OBVIOUS
    <3>2. d \in Nat /\ shut \in Nat /\ M = shut + d
      BY <1>10, <1>15, <3>1
    <3>3. /\ M - (shut + 1) + 1 = d /\ (IF shut + 1 <= M THEN M - (shut + 1) + 1 ELSE 0) = d
          /\ \A i \in 1..d : (shut + 1) + i - 1 = i + shut
      BY ONLY <3>2
    <3> QED BY ONLY <3>1, <3>3
  <2> QED BY <2>2, <2>3
<1>13. \A i \in 1..(N - end) : leaf[i + shut] = text[i + end]
  <2> TAKE i \in 1..(N - end)
  <2>1. end + i \in (end + 1)..N /\ i \in 0..(N - end) /\ end + i = i + end
    BY <1>1, <1>3
  <2>2. leaf[at[end + i]] = text[end + i]
    BY <1>1, <1>3, <1>6, <1>7, <2>1
  <2>3. at[end + i] = i + shut
    BY <1>8, <1>9, <1>10, <2>1
  <2> QED BY <2>1, <2>2, <2>3
<1>14. sk.body = rest
  <2>1. sk.body \in Seq(S) /\ Len(sk.body) = N - end /\ \A i \in 1..(N - end) : sk.body[i] = text[i + end]
    BY <1>5 DEF Split
  <2>2. Len(sk.body) = Len(rest) /\ \A i \in 1..Len(sk.body) : sk.body[i] = rest[i]
    BY <1>12, <1>13, <2>1
  <2> QED BY <1>12, <2>1, <2>2, SameSeq
<1> QED BY <1>2, <1>4, <1>5, <1>9, <1>11, <1>14

IsTarget(t, name, lang, file, text, offset) ==
  t.name = name /\ t.lang = lang /\ t.file = file /\ t.text = text /\ t.offset = offset

LEMMA TargetFields ==
  ASSUME NEW name, NEW lang, NEW file, NEW text, NEW offset
  PROVE  IsTarget(Target(name, lang, file, text, offset), name, lang, file, text, offset)
BY DEF Target, IsTarget

LEMMA SameFiles ==
  ASSUME NEW u, NEW v, BundleLeaves(LoadBundle(u)) = BundleLeaves(LoadBundle(v))
  PROVE  Files(u) = Files(v) /\ \A p \in Files(u) \ {SkillMD} : u[p].text = v[p].text
<1>1. \A w : /\ DOMAIN BundleLeaves(LoadBundle(w)) = Files(w)
             /\ \A p \in Files(w) \ {SkillMD} : BundleLeaves(LoadBundle(w))[p] = w[p].text
  BY DEF BundleLeaves, LoadBundle
<1> QED BY <1>1

\* Bundles with one root differ in nothing but the front matter.
LEMMA OneRootPairs ==
  ASSUME NEW u, NEW v, SkillMD \in Files(u), SkillMD \in Files(v),
         BundleLeaves(LoadBundle(u)) = BundleLeaves(LoadBundle(v)),
         Block(BundleLeaves(LoadBundle(u))[SkillMD]) # {},
         \A p \in Files(u) : IsSeq(u[p].text), IsSeq(v[SkillMD].text)
  PROVE  Paired(Targets(LoadBundle(u)), LoadBundle(u).skill.bodyOffset,
                Targets(LoadBundle(v)), LoadBundle(v).skill.bodyOffset)
<1>1. PICK x, y, leaf : x = u[SkillMD].text /\ y = v[SkillMD].text /\ leaf = BundleLeaves(LoadBundle(u))[SkillMD]
  OBVIOUS
<1>2. leaf = NormalizeSkillMD(x) /\ leaf = NormalizeSkillMD(y) /\ Block(leaf) # {}
  BY <1>1, LeafIs
<1>3. PICK a, b : a = ParseSkillMD(x) /\ b = ParseSkillMD(y)
  OBVIOUS
<1>4. x \in Seq(ToSet(x)) /\ y \in Seq(ToSet(y))
  BY <1>1 DEF IsSeq
<1>5. PICK o \in 3..Len(x) : Split(a, ToSet(x), x, o)
  BY ONLY <1>2, <1>3, <1>4, BodyIsUnderTheRoot
<1>6. PICK p \in 3..Len(y) : Split(b, ToSet(y), y, p)
  BY ONLY <1>2, <1>3, <1>4, BodyIsUnderTheRoot
<1>7. a.body = b.body
  <2>1. a.body = SubSeq(leaf, Min(Closing(leaf, 2)) + 1, Len(leaf))
    BY ONLY <1>2, <1>3, <1>4, BodyIsUnderTheRoot
  <2>2. b.body = SubSeq(leaf, Min(Closing(leaf, 2)) + 1, Len(leaf))
    BY ONLY <1>2, <1>3, <1>4, BodyIsUnderTheRoot
  <2> QED BY <2>1, <2>2
<1>8. o \in Nat /\ p \in Nat /\ 3 <= o /\ 3 <= p
  BY <1>4, <1>5, <1>6
<1>9. LoadBundle(u).skill.bodyOffset = o /\ LoadBundle(v).skill.bodyOffset = p
  BY <1>1, <1>3, <1>5, <1>6 DEF LoadBundle, Split
<1>10. /\ Targets(LoadBundle(u)) = SkillTargets(a) \cup {FileTarget(u, q) : q \in Scannable(u)}
       /\ Targets(LoadBundle(v)) = SkillTargets(b) \cup {FileTarget(v, q) : q \in Scannable(v)}
  BY <1>1, <1>3, TargetsAre
<1>11. PICK tm, tb, sm, sb : /\ tm = Target("manifest", "", SkillMD, a.front, a.frontOffset)
                             /\ tb = Target("body", "", SkillMD, a.body, a.bodyOffset)
                             /\ sm = Target("manifest", "", SkillMD, b.front, b.frontOffset)
                             /\ sb = Target("body", "", SkillMD, b.body, b.bodyOffset)
  OBVIOUS
<1>12. SkillTargets(a) = {tm, tb} /\ SkillTargets(b) = {sm, sb}
  <2>1. a.present /\ b.present
    BY <1>5, <1>6 DEF Split
  <2> QED BY <1>11, <2>1 DEF SkillTargets
<1>13. IsFrontTarget(tm, o) /\ IsFrontTarget(sm, p)
  <2>1. IsSeq(a.front) /\ Len(a.front) + 1 < o /\ 2 < o /\ IsSeq(b.front) /\ Len(b.front) + 1 < p /\ 2 < p
    BY <1>5, <1>6, <1>8, SeqOfItself DEF Split
  <2>2. a.frontOffset = 1 /\ b.frontOffset = 1
    BY <1>5, <1>6 DEF Split
  <2>3. /\ IsTarget(tm, "manifest", "", SkillMD, a.front, a.frontOffset)
        /\ IsTarget(sm, "manifest", "", SkillMD, b.front, b.frontOffset)
    BY ONLY <1>11, TargetFields
  <2>4. /\ tm.name = "manifest" /\ tm.lang = "" /\ tm.file = SkillMD /\ tm.text = a.front /\ tm.offset = 1
        /\ sm.name = "manifest" /\ sm.lang = "" /\ sm.file = SkillMD /\ sm.text = b.front /\ sm.offset = 1
    BY ONLY <2>2, <2>3, Zenon DEF IsTarget
  <2> QED BY <2>1, <2>4 DEF IsFrontTarget
<1>14. Same(tb, o, sb, p)
  <2>1. IsSeq(a.body) /\ a.bodyOffset = o /\ b.bodyOffset = p
    BY <1>5, <1>6, SeqOfItself DEF Split
  <2>2. /\ IsTarget(tb, "body", "", SkillMD, a.body, a.bodyOffset)
        /\ IsTarget(sb, "body", "", SkillMD, b.body, b.bodyOffset)
    BY ONLY <1>11, TargetFields
  <2> QED BY <1>7, <2>1, <2>2, Zenon DEF IsTarget, Same, TopOf
<1>15. ASSUME NEW q \in Scannable(u)
       PROVE  q \in Scannable(v) /\ Same(FileTarget(u, q), o, FileTarget(v, q), p)
  <2>1. q \in Files(u) /\ q # SkillMD
    BY RolesAre DEF Scannable
  <2>2. q \in Files(v) /\ u[q].text = v[q].text
    BY <2>1, SameFiles
  <2>3. q \in Scannable(v) /\ FileTarget(u, q) = FileTarget(v, q)
    BY <2>2 DEF Scannable, FileTarget
  <2>4. PICK t : t = FileTarget(u, q)
    OBVIOUS
  <2>5. t.file = q /\ t.offset = 0 /\ t.text = u[q].text
    <3>1. PICK name, lang : t = Target(name, lang, q, u[q].text, 0)
      BY ONLY <2>4 DEF FileTarget
    <3> QED BY ONLY <3>1, TargetFields DEF IsTarget
  <2>6. Same(t, o, t, p)
    BY <2>1, <2>5 DEF Same, TopOf
  <2> QED BY <2>3, <2>4, <2>6
<1>16. ASSUME NEW t \in Targets(LoadBundle(u))
       PROVE  IsFrontTarget(t, o) \/ \E s \in Targets(LoadBundle(v)) : Same(t, o, s, p)
  <2>1. CASE t = tm
    BY <1>13, <2>1
  <2>2. CASE t = tb
    BY <1>10, <1>12, <1>14, <2>2
  <2>3. CASE \E q \in Scannable(u) : t = FileTarget(u, q)
    BY <1>10, <1>15, <2>3
  <2> QED BY <1>10, <1>12, <2>1, <2>2, <2>3
<1>17. \E s \in Targets(LoadBundle(v)) : IsFrontTarget(s, p)
  BY <1>10, <1>12, <1>13
<1> QED BY <1>8, <1>9, <1>16, <1>17 DEF Paired

\* What is below the front matter, lines counted from there.
AllBelow(fs, o) == {Below(f, o) : f \in {f \in fs : Lies(f, o)}}

LEMMA SaidInBoth ==
  ASSUME NEW rules, \A i \in DOMAIN rules : IsRule(rules[i]),
         NEW contexts, \A c \in contexts : IsContext(c) /\ HasPlace(c), NEW policy,
         NEW a, NEW b, BundleID(a) = BundleID(b), NEW o, NEW p,
         Paired(Targets(a), o, Targets(b), p), Paired(Targets(b), p, Targets(a), o),
         NEW h \in Unlowered(rules, a), Lies(Lowered(contexts, a, h), o)
  PROVE  \E k \in Unlowered(rules, b) :
           /\ Out(h, a, policy) <=> Out(k, b, policy)
           /\ Lies(Lowered(contexts, b, k), p)
           /\ Below(Lowered(contexts, a, h), o) = Below(Lowered(contexts, b, k), p)
<1>1. o \in Nat /\ p \in Nat
  BY DEF Paired
<1>2. h \in Hits(rules, Targets(a)) /\ h \in Dedup(Hits(rules, Targets(a)))
  BY DEF Unlowered, Dedup
<1>3. Lies(h, o)
  <2>1. Lowered(contexts, a, h).file = h.file /\ Lowered(contexts, a, h).line = h.line
    BY <1>2, CapIsUndone DEF Lowered
  <2> QED BY <2>1 DEF Lies
<1>4. PICK k \in Dedup(Hits(rules, Targets(b))) : Twin(h, o, k, p)
  BY <1>2, <1>3, TwinDedup
<1>5. /\ Below(Lowered(contexts, a, h), o) = Below(Lowered(contexts, b, k), p)
      /\ Lowered(contexts, b, k).file = k.file /\ Lowered(contexts, b, k).line = k.line
  BY <1>4, TwinCapped DEF Lowered
<1>6. Lies(Lowered(contexts, b, k), p)
  <2>1. Lies(k, p)
    BY <1>1, <1>4, TwinsAreTwins
  <2> QED BY <1>5, <2>1 DEF Lies
<1>7. Out(h, a, policy) <=> Out(k, b, policy)
  <2>1. h.rule = k.rule /\ h.file = k.file
    BY <1>4 DEF Twin
  <2> QED BY <2>1 DEF Out, Waives
<1> QED BY <1>4, <1>5, <1>6, <1>7 DEF Unlowered

LEMMA SaidOnce ==
  ASSUME NEW rules, \A i \in DOMAIN rules : IsRule(rules[i]),
         NEW contexts, \A c \in contexts : IsContext(c) /\ HasPlace(c), NEW policy,
         NEW a, NEW b, BundleID(a) = BundleID(b), NEW o, NEW p,
         Paired(Targets(a), o, Targets(b), p), Paired(Targets(b), p, Targets(a), o)
  PROVE  /\ AllBelow(Scan(a, rules, contexts, policy).findings, o) \subseteq AllBelow(Scan(b, rules, contexts, policy).findings, p)
         /\ AllBelow(Scan(a, rules, contexts, policy).waived, o) \subseteq AllBelow(Scan(b, rules, contexts, policy).waived, p)
<1> DEFINE found(w) == {Lowered(contexts, w, h) : h \in {h \in Unlowered(rules, w) : ~Out(h, w, policy)}}
           out(w) == {Lowered(contexts, w, h) : h \in {h \in Unlowered(rules, w) : Out(h, w, policy)}}
<1>1. \A w : Scan(w, rules, contexts, policy).findings = found(w) /\ Scan(w, rules, contexts, policy).waived = out(w)
  BY ScanIs
<1>2. ASSUME NEW x \in AllBelow(found(a), o) PROVE x \in AllBelow(found(b), p)
  <2>1. PICK h \in Unlowered(rules, a) : /\ ~Out(h, a, policy) /\ Lies(Lowered(contexts, a, h), o)
                                         /\ x = Below(Lowered(contexts, a, h), o)
    BY DEF AllBelow
  <2>2. PICK k \in Unlowered(rules, b) :
          /\ Out(h, a, policy) <=> Out(k, b, policy)
          /\ Lies(Lowered(contexts, b, k), p)
          /\ Below(Lowered(contexts, a, h), o) = Below(Lowered(contexts, b, k), p)
    BY <2>1, SaidInBoth
  <2>3. Lowered(contexts, b, k) \in found(b)
    BY <2>1, <2>2
  <2> QED BY <2>1, <2>2, <2>3 DEF AllBelow
<1>3. ASSUME NEW x \in AllBelow(out(a), o) PROVE x \in AllBelow(out(b), p)
  <2>1. PICK h \in Unlowered(rules, a) : /\ Out(h, a, policy) /\ Lies(Lowered(contexts, a, h), o)
                                         /\ x = Below(Lowered(contexts, a, h), o)
    BY DEF AllBelow
  <2>2. PICK k \in Unlowered(rules, b) :
          /\ Out(h, a, policy) <=> Out(k, b, policy)
          /\ Lies(Lowered(contexts, b, k), p)
          /\ Below(Lowered(contexts, a, h), o) = Below(Lowered(contexts, b, k), p)
    BY <2>1, SaidInBoth
  <2>3. Lowered(contexts, b, k) \in out(b)
    BY <2>1, <2>2
  <2> QED BY <2>1, <2>2, <2>3 DEF AllBelow
<1> HIDE DEF found, out
<1> QED BY <1>1, <1>2, <1>3

\* While the root is the signed one, a scan finds the same below the front matter,
\* and what was waived for root and name is: the root leaves nothing out that
\* reaches it, but through context rules that are not in place.
\* (merkle.go:86-176, scan.go:206-330, context.go:86-119)
THEOREM RootCoversWhatIsScanned == Spec => []RootCoversScan
<1>1. ASSUME TextsOK, SignedOK, SignedTexts, RulesetOK, ManifestIsSigned PROVE RootCoversScan
  <2> SUFFICES ASSUME NEW s \in signed, SameRoot(s), FirmFront(s.leaves[SkillMD])
               PROVE  Outside(Loaded, s.leaves, Name(LoadBundle(s.dir))) =
                        Outside(LoadBundle(s.dir), s.leaves, Name(LoadBundle(s.dir)))
    BY DEF RootCoversScan
  <2>1. PICK now, then : now = Loaded /\ then = LoadBundle(s.dir)
    OBVIOUS
  <2>2. SkillMD \in Files(dir) /\ SkillMD \in Files(s.dir)
    BY <1>1 DEF SignedOK, SameRoot, Loads
  <2>3. s.leaves = BundleLeaves(LoadBundle(dir)) /\ s.leaves = BundleLeaves(LoadBundle(s.dir))
    BY <1>1 DEF SignedOK, SameRoot, Loaded
  <2>4. Block(s.leaves[SkillMD]) # {}
    BY DEF FirmFront
  <2>5. \A p \in Files(dir) : IsSeq(dir[p].text)
    BY <1>1 DEF TextsOK, Files, Walked
  <2>6. \A p \in Files(s.dir) : IsSeq(s.dir[p].text)
    <3>0. BundleLeaves(LoadBundle(dir)) = BundleLeaves(LoadBundle(s.dir))
      BY ONLY <2>3
    <3>1. Files(dir) = Files(s.dir) /\ \A p \in Files(dir) \ {SkillMD} : dir[p].text = s.dir[p].text
      BY ONLY <3>0, SameFiles
    <3> QED BY <1>1, <2>5, <3>1 DEF SignedTexts
  <2>7. PICK o, p : o = now.skill.bodyOffset /\ p = then.skill.bodyOffset
    OBVIOUS
  <2>8. Paired(Targets(now), o, Targets(then), p) /\ Paired(Targets(then), p, Targets(now), o)
    BY <2>1, <2>2, <2>3, <2>4, <2>5, <2>6, <2>7, OneRootPairs DEF Loaded
  <2>9. BundleID(now) = BundleID(then)
    <3>1. ManifestFields(now.skill.front) = ManifestFields(then.skill.front)
      <4>1. then.skill = ParseSkillMD(s.dir[SkillMD].text)
        BY <2>1 DEF LoadBundle
      <4> QED BY <1>1, <2>1, <4>1 DEF ManifestIsSigned
    <3>2. Name(now) = Name(then)
      BY <3>1 DEF Name
    <3> QED BY <2>1, <2>3, <3>2 DEF BundleID, Loaded
  <2>10. /\ \A i \in DOMAIN Rules : IsRule(Rules[i])
         /\ \A c \in InPlace : IsContext(c) /\ HasPlace(c)
    BY <1>1 DEF RulesetOK, Rules, Contexts, InPlace, HasPlace
  <2>11. PICK policy : policy = [Policy EXCEPT !.waivers = @ \cup {[pinned |-> {s.leaves}, bundle |-> {Name(then)},
                                                                    rules |-> {}, live |-> TRUE, path |-> <<>>]}]
    OBVIOUS
  <2>12. /\ AllBelow(Scan(now, Rules, InPlace, policy).findings, o) = AllBelow(Scan(then, Rules, InPlace, policy).findings, p)
         /\ AllBelow(Scan(now, Rules, InPlace, policy).waived, o) = AllBelow(Scan(then, Rules, InPlace, policy).waived, p)
    <3>1. /\ AllBelow(Scan(now, Rules, InPlace, policy).findings, o) \subseteq AllBelow(Scan(then, Rules, InPlace, policy).findings, p)
          /\ AllBelow(Scan(now, Rules, InPlace, policy).waived, o) \subseteq AllBelow(Scan(then, Rules, InPlace, policy).waived, p)
      BY ONLY <2>8, <2>9, <2>10, SaidOnce
    <3>2. /\ AllBelow(Scan(then, Rules, InPlace, policy).findings, p) \subseteq AllBelow(Scan(now, Rules, InPlace, policy).findings, o)
          /\ AllBelow(Scan(then, Rules, InPlace, policy).waived, p) \subseteq AllBelow(Scan(now, Rules, InPlace, policy).waived, o)
      <4>1. BundleID(then) = BundleID(now)
        BY ONLY <2>9
      <4> QED BY ONLY <2>8, <2>10, <4>1, SaidOnce
    <3> QED BY ONLY <3>1, <3>2
  <2>13. \A b : Outside(b, s.leaves, Name(then)) =
                  [findings |-> AllBelow(Scan(b, Rules, InPlace, policy).findings, b.skill.bodyOffset),
                   waived   |-> AllBelow(Scan(b, Rules, InPlace, policy).waived, b.skill.bodyOffset)]
    BY <2>11 DEF Outside, AllBelow, Below, Lies
  <2> QED BY <2>1, <2>7, <2>12, <2>13
<1>2. Init => TextsOK /\ SignedOK /\ SignedTexts /\ RulesetOK
  <2>1. Init => signed = {}
    BY DEF Init
  <2> QED BY <2>1, TextsInit, RulesetInit DEF SignedOK, SignedTexts
<1>3. (TextsOK /\ SignedOK /\ SignedTexts /\ RulesetOK) /\ [Next]_vars => (TextsOK /\ SignedOK /\ SignedTexts /\ RulesetOK)'
  BY TextsStep, SignedStep, SignedTextsStep, RulesetStep
<1>4. Spec => []ManifestIsSigned
  BY RootSignsTheManifest
<1> QED BY <1>1, <1>2, <1>3, <1>4, PTL DEF Spec

-----------------------------------------------------------------------------
(* What `sign` leaves behind has the leaf that it signed.                   *)

\* "all" is the first line of a text, and behind it what "rest" holds.
Behind(S, text, rest, all) ==
  /\ rest \in Seq(S) /\ all \in Seq(S) /\ Len(all) = Len(rest) + 1 /\ all[1] = text[1]
  /\ \A j \in 1..Len(rest) : all[j + 1] = rest[j]

\* Keeping the first line puts it in front of what else is kept.
LEMMA KeptBehindTheFirst ==
  ASSUME NEW S, NEW text \in Seq(S), Len(text) >= 1, NEW K, K \subseteq 2..Len(text)
  PROVE  Behind(S, text, KeepAt(text, K), KeepAt(text, K \cup {1}))
<1> DEFINE N == Len(text)
<1>0. PICK rest, all : rest = KeepAt(text, K) /\ all = KeepAt(text, K \cup {1})
  OBVIOUS
<1>1. PICK at : Places(at, text, K, rest)
  BY <1>0, PlacesAre
<1>2. PICK bt : Places(bt, text, K \cup {1}, all)
  BY <1>0, PlacesAre
<1>3. N \in Nat /\ 1 <= N
  BY SeqIs
<1>4. /\ at \in [0..N -> Nat] /\ at[0] = 0 /\ Len(rest) = at[N]
      /\ \A n \in 1..N : at[n] = IF n \in K THEN at[n - 1] + 1 ELSE at[n - 1]
      /\ \A n \in K \cap (1..N) : rest[at[n]] = text[n]
  BY <1>1 DEF Places
<1>5. /\ bt \in [0..N -> Nat] /\ bt[0] = 0 /\ Len(all) = bt[N]
      /\ \A n \in 1..N : bt[n] = IF n \in K \cup {1} THEN bt[n - 1] + 1 ELSE bt[n - 1]
      /\ \A n \in (K \cup {1}) \cap (1..N) : all[bt[n]] = text[n]
  BY <1>2 DEF Places
<1>6. bt[1] = 1 /\ at[1] = 0
  <2>1. 1 \in 1..N /\ 1 - 1 = 0 /\ 1 \notin K
    BY <1>3
  <2> QED BY <1>4, <1>5, <2>1
<1>7. \A n \in 1..N : bt[n] = at[n] + 1
  <2> DEFINE P == {n \in Nat : n + 1 <= N => bt[n + 1] = at[n + 1] + 1}
  <2>1. 0 \in P
    BY <1>6
  <2>2. ASSUME NEW n \in Nat, n \in P PROVE n + 1 \in P
    <3> SUFFICES ASSUME (n + 1) + 1 <= N PROVE bt[(n + 1) + 1] = at[(n + 1) + 1] + 1
      OBVIOUS
    <3>1. PICK m : m = (n + 1) + 1
      OBVIOUS
    <3>2. m \in 1..N /\ m - 1 = n + 1 /\ m # 1 /\ m - 1 \in 0..N
      BY <1>3, <3>1
    <3>3. bt[m - 1] = at[m - 1] + 1 /\ at[m - 1] \in Nat
      <4>1. n + 1 <= N
        BY <1>3, <3>1, <3>2
      <4> QED BY <1>4, <2>2, <3>2, <4>1
    <3>4. m \in K \cup {1} <=> m \in K
      BY <3>2
    <3>5. bt[m] = at[m] + 1
      BY <1>4, <1>5, <3>2, <3>3, <3>4
    <3> QED BY <3>1, <3>5
  <2> HIDE DEF P
  <2>3. Nat \subseteq P
    BY <2>1, <2>2, ByInduction
  <2>4. ASSUME NEW n \in 1..N PROVE bt[n] = at[n] + 1
    <3>1. n - 1 \in P /\ (n - 1) + 1 = n
      BY <1>3, <2>3
    <3> QED BY <1>3, <3>1 DEF P
  <2> QED BY <2>4
<1>8. rest \in Seq(S) /\ all \in Seq(S)
  BY <1>0, KeepAtIsSeq
<1>9. Len(all) = Len(rest) + 1
  <2>1. N \in 1..N
    BY <1>3
  <2> QED BY <1>4, <1>5, <1>7, <2>1
<1>10. all[1] = text[1]
  <2>1. 1 \in (K \cup {1}) \cap (1..N)
    BY <1>3
  <2>2. all[bt[1]] = text[1]
    BY <1>5, <2>1
  <2> QED BY <1>6, <2>2
<1>11. ASSUME NEW j \in 1..Len(rest) PROVE all[j + 1] = rest[j]
  <2>1. j \in 1..at[N] /\ N \in 0..N
    BY <1>3, <1>4
  <2>2. PICK m \in K \cap (1..N) : at[m] = j
    BY <1>1, <2>1, PlacesRise
  <2>3. rest[j] = text[m] /\ bt[m] = j + 1
    BY <1>4, <1>7, <2>2
  <2>4. all[bt[m]] = text[m]
    BY <1>5, <2>2
  <2> QED BY <2>3, <2>4
<1> QED BY ONLY <1>0, <1>8, <1>9, <1>10, <1>11 DEF Behind

\* Without its second and third line a text is its first and the rest.
LEMMA KeptAroundTwo ==
  ASSUME NEW S, NEW text \in Seq(S), Len(text) >= 3,
         NEW all, all = KeepAt(text, DOMAIN text \ {2, 3})
  PROVE  /\ all \in Seq(S) /\ Len(all) = Len(text) - 2 /\ all[1] = text[1]
         /\ \A j \in 1..(Len(text) - 3) : all[j + 1] = text[j + 3]
<1> DEFINE N == Len(text)
           K == DOMAIN text \ {2, 3}
<1>1. PICK at : Places(at, text, K, all)
  BY PlacesAre
<1>2. N \in Nat /\ 3 <= N /\ DOMAIN text = 1..N /\ N - 3 \in Nat
  BY SeqIs
<1>3. /\ at \in [0..N -> Nat] /\ at[0] = 0 /\ Len(all) = at[N]
      /\ \A n \in 1..N : at[n] = IF n \in K THEN at[n - 1] + 1 ELSE at[n - 1]
      /\ \A n \in K \cap (1..N) : all[at[n]] = text[n]
  BY <1>1 DEF Places
<1>4. at[1] = 1 /\ at[3] = 1
  <2>1. /\ 1 \in 1..N /\ 2 \in 1..N /\ 3 \in 1..N /\ 1 - 1 = 0 /\ 2 - 1 = 1 /\ 3 - 1 = 2
        /\ 1 \in K /\ 2 \notin K /\ 3 \notin K
    BY <1>2
  <2> HIDE DEF K
  <2>2. at[1] = 1
    BY <1>3, <2>1
  <2>3. at[2] = at[1]
    BY <1>3, <2>1
  <2>4. at[3] = at[2]
    BY <1>3, <2>1
  <2> QED BY <2>2, <2>3, <2>4
<1>5. \A n \in 4..N : n \in K
  BY <1>2
<1>6. 1 \in K
  BY <1>2
<1> HIDE DEF K
<1>7. \A j \in 0..(N - 3) : at[j + 3] = j + 1
  <2> DEFINE P == {j \in Nat : j <= N - 3 => at[j + 3] = j + 1}
  <2>1. 0 \in P
    BY <1>4
  <2>2. ASSUME NEW j \in Nat, j \in P PROVE j + 1 \in P
    <3> SUFFICES ASSUME j + 1 <= N - 3 PROVE at[(j + 1) + 3] = (j + 1) + 1
      OBVIOUS
    <3>1. PICK m : m = (j + 1) + 3
      OBVIOUS
    <3>2. m \in 4..N /\ m \in 1..N /\ m - 1 = j + 3
      BY <1>2, <3>1
    <3>3. at[m - 1] = j + 1
      <4>1. j <= N - 3
        BY <1>2
      <4> QED BY <2>2, <3>2, <4>1
    <3>4. at[m] = at[m - 1] + 1
      BY <1>3, <1>5, <3>2
    <3> QED BY <3>1, <3>3, <3>4
  <2> HIDE DEF P
  <2>3. Nat \subseteq P
    BY <2>1, <2>2, ByInduction
  <2>4. ASSUME NEW j \in 0..(N - 3) PROVE at[j + 3] = j + 1
    <3>1. j \in P /\ j <= N - 3
      BY <1>2, <2>3
    <3> QED BY <3>1 DEF P
  <2> QED BY <2>4
<1>8. Len(all) = N - 2
  <2>1. N - 3 \in 0..(N - 3) /\ (N - 3) + 3 = N /\ (N - 3) + 1 = N - 2
    BY <1>2
  <2> QED BY <1>3, <1>7, <2>1
<1>9. all[1] = text[1]
  <2>1. 1 \in K \cap (1..N)
    BY <1>2, <1>6
  <2>2. all[at[1]] = text[1]
    BY <1>3, <2>1
  <2> QED BY <1>4, <2>2
<1>10. ASSUME NEW j \in 1..(N - 3) PROVE all[j + 1] = text[j + 3]
  <2>1. j + 3 \in K \cap (1..N) /\ j \in 0..(N - 3)
    BY <1>2, <1>5
  <2>2. all[at[j + 3]] = text[j + 3]
    BY <1>3, <2>1
  <2> QED BY <1>7, <2>1, <2>2
<1>11. all \in Seq(S)
  BY KeepAtIsSeq
<1> QED BY <1>8, <1>9, <1>10, <1>11

\* The two fields that `sign` writes: each is a reserved line of its own.
LEMMA FieldsAre ==
  ASSUME NEW a, NEW b, a = Field("content_hash", "quoted"), b = Field("signature", "quoted")
  PROVE  /\ a # Delimiter /\ b # Delimiter /\ ~a.indented /\ ~b.indented
         /\ Reserved(a) /\ Reserved(b) /\ Fold(a.key) # Fold(b.key)
         /\ SafeScalar(a) /\ SafeScalar(b)
<1>1. a.key = "content_hash" /\ a.value = "quoted" /\ a.indented = FALSE
  BY DEF Field
<1>2. b.key = "signature" /\ b.value = "quoted" /\ b.indented = FALSE
  BY DEF Field
<1>3. Delimiter.key = "none"
  BY DEF Delimiter, NoKey
<1>4. Fold("content_hash") = "content_hash" /\ Fold("signature") = "signature"
  BY DEF Fold
<1>5. a # Delimiter /\ b # Delimiter
  BY <1>1, <1>2, <1>3
<1>6. Reserved(a) /\ Reserved(b) /\ Fold(a.key) # Fold(b.key)
  BY <1>1, <1>2, <1>4 DEF Reserved
<1>7. SafeScalar(a) /\ SafeScalar(b)
  BY <1>1, <1>2 DEF SafeScalar
<1> QED BY <1>1, <1>2, <1>5, <1>6, <1>7

\* One text after another, line by line.
LEMMA JoinedIs ==
  ASSUME NEW T, NEW head \in Seq(T), NEW rest \in Seq(T)
  PROVE  /\ head \o rest \in Seq(T) /\ Len(head \o rest) = Len(head) + Len(rest)
         /\ \A i \in 1..Len(head) : (head \o rest)[i] = head[i]
         /\ \A j \in 1..Len(rest) : (head \o rest)[j + Len(head)] = rest[j]
<1>1. Len(head) \in Nat /\ Len(rest) \in Nat
  BY SeqIs
<1>2. ASSUME NEW j \in 1..Len(rest) PROVE (head \o rest)[j + Len(head)] = rest[j]
  <2>1. /\ j + Len(head) \in 1..(Len(head) + Len(rest)) /\ ~(j + Len(head) <= Len(head))
        /\ (j + Len(head)) - Len(head) = j
    BY <1>1
  <2> QED BY <2>1, ConcatProperties
<1>3. \A i \in 1..Len(head) : (head \o rest)[i] = head[i]
  BY <1>1, ConcatProperties
<1> QED BY <1>2, <1>3, ConcatProperties

\* A front matter is clean when all its reserved lines are ones the leaf leaves
\* out, and the first other line continues none.
Tidy(text) ==
  /\ {i \in Block(text) : Reserved(text[i])} = Dropped(text)
  /\ \A i \in Block(text) : ~Reserved(text[i]) /\ text[i].indented =>
       \E j \in Block(text) : j < i /\ ~Reserved(text[j])

\* Where the fields are, and what follows them.
LEMMA WrittenIs ==
  ASSUME NEW S, NEW text \in Seq(S), Closing(text, 2) # {}, Tidy(text),
         NEW K, K = {i \in 2..Len(text) : i \in Block(text) => ~Reserved(text[i])},
         NEW rest, rest = KeepAt(text, K), NEW w, w = WriteUSFFields(text)
  PROVE  /\ \E T : w \in Seq(T) /\ S \subseteq T
         /\ Len(w) = Len(rest) + 3 /\ w[1] = Delimiter
         /\ \A j \in 1..Len(rest) : w[j + 3] = rest[j]
         /\ Dropped(w) = {2, 3}
<1> DEFINE N == Len(text)
<1>1. PICK head, T : /\ head = <<Delimiter, Field("content_hash", "quoted"), Field("signature", "quoted")>>
                     /\ T = S \cup {Delimiter, Field("content_hash", "quoted"), Field("signature", "quoted")}
  OBVIOUS
<1>2. PICK a, b, c : /\ head = <<a, b, c>> /\ a \in T /\ b \in T /\ c \in T /\ a = Delimiter
                     /\ b = Field("content_hash", "quoted") /\ c = Field("signature", "quoted")
  BY <1>1
<1>3. head \in Seq(T) /\ Len(head) = 3 /\ head[1] = a /\ head[2] = b /\ head[3] = c
  BY <1>2
<1>4. S \subseteq T
  BY <1>1
<1>5. rest \in Seq(S) /\ rest \in Seq(T) /\ Len(rest) \in Nat
  <2>1. rest \in Seq(S)
    BY KeepAtIsSeq
  <2> QED BY <1>4, <2>1, SeqMonotonic
<1>6. w = head \o rest
  BY ONLY <1>1, K = {i \in 2..Len(text) : i \in Block(text) => ~Reserved(text[i])},
          rest = KeepAt(text, K), w = WriteUSFFields(text) DEF WriteUSFFields
<1>7. /\ w \in Seq(T) /\ Len(w) = Len(rest) + 3 /\ w[1] = a /\ w[2] = b /\ w[3] = c
      /\ \A j \in 1..Len(rest) : w[j + 3] = rest[j]
  <2>1. PICK n : n = Len(rest) /\ n \in Nat
    BY <1>5
  <2>2. /\ head \o rest \in Seq(T) /\ Len(head \o rest) = Len(head) + Len(rest)
        /\ \A i \in 1..Len(head) : (head \o rest)[i] = head[i]
        /\ \A j \in 1..Len(rest) : (head \o rest)[j + Len(head)] = rest[j]
    <3>1. head \in Seq(T)
      BY <1>3
    <3>2. rest \in Seq(T)
      BY <1>5
    <3> QED BY ONLY <3>1, <3>2, JoinedIs
  <2>3. /\ w \in Seq(T) /\ Len(w) = 3 + n /\ \A i \in 1..3 : w[i] = head[i]
        /\ \A j \in 1..n : w[j + 3] = rest[j]
    BY ONLY <1>3, <1>6, <2>1, <2>2
  <2> QED BY <1>3, <2>1, <2>3
<1>8. /\ b # Delimiter /\ c # Delimiter /\ ~b.indented /\ ~c.indented
      /\ Reserved(b) /\ Reserved(c) /\ Fold(b.key) # Fold(c.key) /\ SafeScalar(b) /\ SafeScalar(c)
  BY <1>2, FieldsAre
<1>9. PICK end : end = Min(Closing(text, 2))
  OBVIOUS
<1>10. /\ end \in 2..N /\ text[end] = Delimiter /\ \A i \in 2..(end - 1) : text[i] # Delimiter
       /\ Block(text) = 2..(end - 1) /\ N \in Nat
  BY <1>9, ClosingIs, SeqIs DEF Block
<1>11. PICK at : Places(at, text, K, rest)
  BY PlacesAre
<1>12. /\ at \in [0..N -> Nat] /\ at[0] = 0 /\ Len(rest) = at[N]
       /\ \A n \in 1..N : at[n] = IF n \in K THEN at[n - 1] + 1 ELSE at[n - 1]
       /\ \A n \in K \cap (1..N) : rest[at[n]] = text[n]
  BY <1>11 DEF Places
<1>13. /\ \A n \in 0..N : \A m \in 0..n : at[m] <= at[n]
       /\ \A n \in 0..N : \A j \in 1..at[n] : \E m \in K \cap (1..n) : at[m] = j
  BY <1>11, PlacesRise
<1>14. /\ end \in K /\ \A n \in K : n \in 2..N
       /\ \A n \in 2..(end - 1) : n \in K <=> ~Reserved(text[n])
  BY <1>10
<1>15. PICK e : e = at[end]
  OBVIOUS
<1>16. e \in 1..Len(rest) /\ at[end - 1] = e - 1 /\ rest[e] = Delimiter
  <2>1. end \in 1..N /\ end - 1 \in 0..N /\ end \in 0..N /\ N \in 0..N /\ end \in 0..N /\ end \in K \cap (1..N)
    BY <1>10, <1>14
  <2>2. at[end] = at[end - 1] + 1 /\ at[end - 1] \in Nat /\ at[end] <= at[N] /\ rest[at[end]] = text[end]
    BY <1>12, <1>13, <1>14, <2>1
  <2> QED BY <1>10, <1>12, <1>15, <2>2
<1>17. \A j \in 1..(e - 1) : \E m \in K \cap (2..(end - 1)) : at[m] = j /\ rest[j] = text[m]
  <2> TAKE j \in 1..(e - 1)
  <2>1. end - 1 \in 0..N /\ j \in 1..at[end - 1]
    BY <1>10, <1>16
  <2>2. PICK m \in K \cap (1..(end - 1)) : at[m] = j
    BY <1>13, <2>1
  <2>3. m \in 2..(end - 1) /\ m \in K \cap (1..N)
    BY <1>10, <1>14, <2>2
  <2> QED BY <1>12, <2>2, <2>3
<1>18. \A i \in 4..(e + 2) : w[i] = rest[i - 3] /\ w[i] # Delimiter /\ ~Reserved(w[i])
  <2> TAKE i \in 4..(e + 2)
  <2>1. i - 3 \in 1..(e - 1) /\ i - 3 \in 1..Len(rest) /\ (i - 3) + 3 = i
    BY <1>5, <1>16
  <2>2. PICK m \in K \cap (2..(end - 1)) : rest[i - 3] = text[m]
    BY <1>17, <2>1
  <2>3. w[i] = rest[i - 3]
    BY <1>7, <2>1
  <2> QED BY <1>10, <1>14, <2>2, <2>3
<1>19. Closing(w, 2) # {} /\ Min(Closing(w, 2)) = e + 3
  <2>1. Len(w) \in Nat /\ e + 3 \in 2..Len(w) /\ w[e + 3] = Delimiter /\ w # <<>>
    BY <1>5, <1>7, <1>16
  <2>2. e + 3 \in Closing(w, 2)
    BY <1>2, <1>7, <2>1 DEF Closing
  <2>3. PICK shut : shut = Min(Closing(w, 2))
    OBVIOUS
  <2>4. shut \in 2..Len(w) /\ w[shut] = Delimiter /\ \A i \in 2..(shut - 1) : w[i] # Delimiter
    <3>1. 2 \in Nat /\ 2 >= 1 /\ w \in Seq(T) /\ Closing(w, 2) # {}
      BY <1>7, <2>2
    <3> QED BY ONLY <2>3, <3>1, ClosingIs
  <2>5. ~(e + 3 < shut)
    BY <1>16, <2>1, <2>4
  <2>6. ~(shut < e + 3)
    <3> SUFFICES ASSUME shut < e + 3 PROVE FALSE
      OBVIOUS
    <3>1. shut = 2 \/ shut = 3 \/ shut \in 4..(e + 2)
      BY <1>16, <2>1, <2>4
    <3> QED BY <1>7, <1>8, <1>18, <2>4, <3>1
  <2> QED BY <1>16, <2>1, <2>2, <2>3, <2>4, <2>5, <2>6
<1>20. Block(w) = 2..(e + 2)
  BY <1>16, <1>19 DEF Block
<1>21. 2 \in Block(w) /\ 3 \in Block(w) /\ \A i \in Block(w) : i = 2 \/ i = 3 \/ i \in 4..(e + 2)
  BY <1>16, <1>20
<1>22. ~Continued(w, 2)
  BY <1>7, <1>8 DEF Continued
<1>23. ~Continued(w, 3)
  <2> SUFFICES ASSUME 4 \in Block(w), w[4].indented PROVE FALSE
    BY DEF Continued
  <2>1. 1 \in 1..(e - 1) /\ 4 \in 4..(e + 2) /\ 4 - 3 = 1
    BY <1>16, <1>20
  <2>2. PICK m \in K \cap (2..(end - 1)) : at[m] = 1 /\ rest[1] = text[m]
    BY <1>17, <2>1
  <2>3. text[m].indented /\ ~Reserved(text[m]) /\ m \in Block(text)
    BY <1>10, <1>14, <1>18, <2>1, <2>2
  <2>4. PICK j \in Block(text) : j < m /\ ~Reserved(text[j])
    BY <2>3 DEF Tidy
  <2>5. j \in K /\ j \in 1..N /\ j - 1 \in 0..N /\ j \in 0..(m - 1) /\ m - 1 \in 0..N /\ m \in 1..N /\ m \in K
    BY <1>10, <1>14, <2>2, <2>4
  <2>6. at[j] = at[j - 1] + 1 /\ at[j - 1] \in Nat /\ at[m] = at[m - 1] + 1 /\ at[j] <= at[m - 1] /\ at[m - 1] \in Nat
    BY <1>12, <1>13, <2>5
  <2> QED BY <2>2, <2>6
<1>24. OnlyOne(w, 2) /\ OnlyOne(w, 3)
  BY <1>7, <1>8, <1>18, <1>21 DEF OnlyOne
<1>25. Dropped(w) = {2, 3}
  <2>1. 2 \in Dropped(w) /\ 3 \in Dropped(w)
    BY <1>7, <1>8, <1>21, <1>22, <1>23, <1>24 DEF Dropped
  <2>2. \A i \in Dropped(w) : i = 2 \/ i = 3
    BY <1>18, <1>21 DEF Dropped
  <2> QED BY <2>1, <2>2
<1> QED BY <1>2, <1>4, <1>7, <1>25

LEMMA WriteKeepsLeaf ==
  ASSUME NEW S, NEW text \in Seq(S), Closing(text, 2) # {}, Tidy(text)
  PROVE  NormalizeSkillMD(WriteUSFFields(text)) = NormalizeSkillMD(text)
<1> DEFINE N == Len(text)
<1>1. PICK K : K = {i \in 2..Len(text) : i \in Block(text) => ~Reserved(text[i])}
  OBVIOUS
<1>2. PICK rest, w : rest = KeepAt(text, K) /\ w = WriteUSFFields(text)
  OBVIOUS
<1>3. /\ Len(w) = Len(rest) + 3 /\ w[1] = Delimiter
      /\ \A j \in 1..Len(rest) : w[j + 3] = rest[j]
      /\ Dropped(w) = {2, 3}
  BY <1>1, <1>2, WrittenIs
<1>4. PICK T : w \in Seq(T) /\ S \subseteq T
  BY <1>1, <1>2, WrittenIs
<1>5. N \in Nat /\ N >= 2 /\ text[1] = Delimiter /\ DOMAIN text = 1..N /\ Block(text) \subseteq 2..N
  <2>1. PICK end : end = Min(Closing(text, 2))
    OBVIOUS
  <2>2. end \in 2..N /\ text[1] = Delimiter /\ Block(text) = 2..(end - 1)
    BY <2>1, ClosingIs DEF Block
  <2> QED BY <2>2, SeqIs
<1>6. DOMAIN text \ Dropped(text) = K \cup {1}
  <2>1. Dropped(text) = {i \in Block(text) : Reserved(text[i])}
    BY DEF Tidy
  <2> QED BY <1>1, <1>5, <2>1
<1>7. K \subseteq 2..N
  BY <1>1
<1>8. PICK leaf : leaf = KeepAt(text, K \cup {1})
  OBVIOUS
<1>9. /\ rest \in Seq(S) /\ leaf \in Seq(S) /\ Len(leaf) = Len(rest) + 1 /\ leaf[1] = text[1]
      /\ \A j \in 1..Len(rest) : leaf[j + 1] = rest[j]
  <2>1. N >= 1
    BY <1>5
  <2>2. rest = KeepAt(text, K)
    BY <1>2
  <2>3. text \in Seq(S)
    OBVIOUS
  <2>4. Len(text) >= 1
    BY ONLY <2>1 DEF N
  <2>5. text \in Seq(S) /\ Len(text) >= 1
    BY ONLY <2>3, <2>4
  <2>6. K \subseteq 2..Len(text)
    BY ONLY <1>7 DEF N
  <2>7. Behind(S, text, KeepAt(text, K), KeepAt(text, K \cup {1}))
    BY ONLY <2>5, <2>6, KeptBehindTheFirst
  <2>8. Behind(S, text, rest, leaf)
    BY ONLY <1>8, <2>2, <2>7
  <2> QED BY ONLY <2>8 DEF Behind
<1>10. PICK new : new = KeepAt(w, DOMAIN w \ {2, 3})
  OBVIOUS
<1>11. Len(rest) \in Nat /\ Len(w) >= 3 /\ Len(w) - 3 = Len(rest) /\ Len(w) - 2 = Len(rest) + 1
  BY <1>3, <1>9, SeqIs
<1>12. /\ new \in Seq(T) /\ Len(new) = Len(w) - 2 /\ new[1] = w[1]
       /\ \A j \in 1..(Len(w) - 3) : new[j + 1] = w[j + 3]
  BY <1>4, <1>10, <1>11, KeptAroundTwo
<1>13. new = leaf
  <2>1. leaf \in Seq(T) /\ Len(new) = Len(leaf)
    BY <1>4, <1>9, <1>11, <1>12, SeqMonotonic
  <2>2. ASSUME NEW i \in 1..Len(new) PROVE new[i] = leaf[i]
    <3>1. CASE i = 1
      BY <1>3, <1>5, <1>9, <1>12, <3>1
    <3>2. CASE i # 1
      <4>1. PICK j : j = i - 1
        OBVIOUS
      <4>2. j \in 1..Len(rest) /\ j \in 1..(Len(w) - 3) /\ i = j + 1
        BY <1>11, <1>12, <3>2, <4>1
      <4> QED BY <1>3, <1>9, <1>12, <4>2
    <3> QED BY <3>1, <3>2
  <2> QED BY <1>12, <2>1, <2>2, SameSeq
<1> QED BY <1>2, <1>3, <1>6, <1>8, <1>10, <1>13 DEF NormalizeSkillMD

\* What `sign` changes of what the loader reads: the text of SKILL.md at most.
LEMMA SigningKeepsFiles ==
  ASSUME NEW emit \in BOOLEAN, Sign(emit)
  PROVE  /\ SkillMD \in Files(dir) /\ Files(dir') = Files(dir)
         /\ \A p \in Files(dir) \ {SkillMD} : dir'[p].text = dir[p].text
         /\ \/ dir'[SkillMD].text = Text
            \/ HasBlock(Text) /\ dir'[SkillMD].text = WriteUSFFields(Text)
<1> DEFINE envelopes == [p \in SignatureFileNames |-> File(<<>>)]
           skill == IF emit /\ HasBlock(Text)
                    THEN [p \in {SkillMD} |-> File(WriteUSFFields(Text))] ELSE <<>>
<1>1. dir' = Over(skill, Over(envelopes, dir))
  BY DEF Sign
<1>2. SkillMD \in Files(dir) /\ SkillMD \in DOMAIN dir
  BY DEF Sign, Loads, Files, Walked
<1>3. DOMAIN envelopes = SignatureFileNames
  OBVIOUS
<1>4. /\ DOMAIN skill \subseteq {SkillMD}
      /\ SkillMD \in DOMAIN skill => HasBlock(Text) /\ skill[SkillMD].text = WriteUSFFields(Text)
  BY DEF File
<1> HIDE DEF skill, envelopes
<1>5. PICK low, new : low = Over(envelopes, dir) /\ new = Over(skill, low) /\ dir' = new
  BY <1>1
<1>6. /\ DOMAIN low = DOMAIN envelopes \cup DOMAIN dir
      /\ \A p \in DOMAIN low : low[p] = IF p \in DOMAIN envelopes THEN envelopes[p] ELSE dir[p]
  BY ONLY <1>5 DEF Over
<1>7. /\ DOMAIN new = DOMAIN skill \cup DOMAIN low
      /\ \A p \in DOMAIN new : new[p] = IF p \in DOMAIN skill THEN skill[p] ELSE low[p]
  BY ONLY <1>5 DEF Over
<1>8. \A p \in SignatureFileNames : Last(p) \in Signatures
  BY DEF SignatureFileNames, Last
<1>9. Files(dir') = Files(dir)
  <2>1. DOMAIN new = SignatureFileNames \cup DOMAIN dir
    BY <1>2, <1>3, <1>4, <1>6, <1>7
  <2> QED BY <1>5, <1>8, <2>1 DEF Files, Walked
<1>10. ASSUME NEW p \in Files(dir) PROVE new[p] = IF p \in DOMAIN skill THEN skill[p] ELSE dir[p]
  <2>1. p \in DOMAIN dir /\ p \notin SignatureFileNames
    BY <1>8 DEF Files, Walked
  <2> QED BY <1>3, <1>6, <1>7, <2>1
<1>11. \A p \in Files(dir) \ {SkillMD} : dir'[p].text = dir[p].text
  BY <1>4, <1>5, <1>10
<1>12. \/ dir'[SkillMD].text = Text
       \/ HasBlock(Text) /\ dir'[SkillMD].text = WriteUSFFields(Text)
  BY <1>2, <1>4, <1>5, <1>10 DEF Text
<1> QED BY <1>2, <1>9, <1>11, <1>12

LEMMA SigningKeepsLeaves ==
  ASSUME NEW emit \in BOOLEAN, TextsOK, Sign(emit), CleanFront, NEW s \in signed'
  PROVE  BundleLeaves(LoadBundle(dir')) = s.leaves
<1>1. s.leaves = BundleLeaves(Loaded)
  BY DEF Sign
<1>2. /\ SkillMD \in Files(dir) /\ Files(dir') = Files(dir)
      /\ \A p \in Files(dir) \ {SkillMD} : dir'[p].text = dir[p].text
      /\ \/ dir'[SkillMD].text = Text
         \/ HasBlock(Text) /\ dir'[SkillMD].text = WriteUSFFields(Text)
  BY SigningKeepsFiles
<1>3. NormalizeSkillMD(dir'[SkillMD].text) = NormalizeSkillMD(Text)
  <2>1. Tidy(Text)
    BY DEF CleanFront, Tidy
  <2>2. Text \in Seq(ToSet(Text))
    <3>1. SkillMD \in DOMAIN dir
      BY <1>2 DEF Files, Walked
    <3> QED BY <3>1 DEF TextsOK, Text, IsSeq
  <2>3. ASSUME HasBlock(Text) PROVE NormalizeSkillMD(WriteUSFFields(Text)) = NormalizeSkillMD(Text)
    <3>1. Closing(Text, 2) # {}
      BY <2>3 DEF HasBlock
    <3> QED BY ONLY <2>1, <2>2, <3>1, WriteKeepsLeaf
  <2> QED BY <1>2, <2>3
<1>4. ASSUME NEW d, SkillMD \in Files(d)
      PROVE  BundleLeaves(LoadBundle(d)) =
               [p \in Files(d) |-> IF p = SkillMD THEN NormalizeSkillMD(d[SkillMD].text) ELSE d[p].text]
  BY DEF BundleLeaves, LoadBundle
<1>5. BundleLeaves(LoadBundle(dir')) =
        [p \in Files(dir') |-> IF p = SkillMD THEN NormalizeSkillMD(dir'[SkillMD].text) ELSE dir'[p].text]
  BY <1>2, <1>4
<1>6. BundleLeaves(LoadBundle(dir)) =
        [p \in Files(dir) |-> IF p = SkillMD THEN NormalizeSkillMD(Text) ELSE dir[p].text]
  BY <1>2, <1>4 DEF Text
<1> QED BY <1>1, <1>2, <1>3, <1>5, <1>6 DEF Loaded

\* Signing a bundle whose front matter is clean does not change what was signed:
\* the fields that `sign --emit-manifest-fields` writes are exactly what the leaf
\* leaves out of the new text. (merkle.go:116-135, usf.go:51-79)
THEOREM CleanSigningKeepsTheRoot == Spec => CleanSigningVerifies
<1>1. ASSUME TextsOK, [Next]_vars
      PROVE  [Signs /\ CleanFront /\ Loads(dir')
                => \A s \in signed' : BundleLeaves(LoadBundle(dir')) = s.leaves]_vars
  <2>1. ASSUME NEW emit \in BOOLEAN, Sign(emit), CleanFront, NEW s \in signed'
        PROVE  BundleLeaves(LoadBundle(dir')) = s.leaves
    BY <1>1, <2>1, SigningKeepsLeaves
  <2> QED BY <2>1 DEF Signs
<1>2. Init => TextsOK
  BY TextsInit
<1>3. TextsOK /\ [Next]_vars => TextsOK'
  BY TextsStep
<1> QED BY <1>1, <1>2, <1>3, PTL DEF Spec, CleanSigningVerifies

-----------------------------------------------------------------------------
(* Findings in order.                                                       *)

\* A strict order on a set, as a set of pairs.
StrictOrder(S, before) ==
  /\ \A x \in S : <<x, x>> \notin before
  /\ \A x, y, z \in S : <<x, y>> \in before /\ <<y, z>> \in before => <<x, z>> \in before
  /\ \A x, y \in S : x # y => <<x, y>> \in before \/ <<y, x>> \in before

\* How many elements come before each.
LEMMA RanksDiffer ==
  ASSUME NEW S, IsFiniteSet(S), NEW before, StrictOrder(S, before),
         NEW rank, rank = [x \in S |-> Cardinality({y \in S : <<y, x>> \in before})]
  PROVE  /\ Cardinality(S) \in Nat
         /\ \A x \in S : rank[x] \in 0..(Cardinality(S) - 1)
         /\ \A x, y \in S : <<x, y>> \in before => rank[x] < rank[y]
         /\ \A k \in 0..(Cardinality(S) - 1) : \E x \in S : rank[x] = k
<1> DEFINE n == Cardinality(S)
           Ahead(x) == {y \in S : <<y, x>> \in before}
<1>1. n \in Nat
  BY FS_CardinalityType
<1>2. \A x \in S : rank[x] = Cardinality(Ahead(x))
  OBVIOUS
<1>3. ASSUME NEW x \in S PROVE IsFiniteSet(Ahead(x)) /\ rank[x] \in 0..(n - 1)
  <2>1. Ahead(x) \subseteq S /\ x \notin Ahead(x)
    BY DEF StrictOrder
  <2> HIDE DEF Ahead
  <2>2. IsFiniteSet(Ahead(x)) /\ Cardinality(Ahead(x)) <= n /\ Cardinality(Ahead(x)) # n
    BY <2>1, FS_Subset
  <2>3. Cardinality(Ahead(x)) \in Nat
    BY <2>2, FS_CardinalityType
  <2>4. Cardinality(Ahead(x)) \in 0..(n - 1)
    BY <1>1, <2>2, <2>3
  <2> QED BY <1>2, <2>2, <2>4
<1> DEFINE Slots == 0..(n - 1)
<1>6. \A x \in S : IsFiniteSet(Ahead(x)) /\ rank[x] \in Slots
  BY <1>3
<1>7. \A k \in Slots : k \in Int
  BY <1>1
<1> HIDE DEF Ahead, Slots
<1>4. ASSUME NEW x \in S, NEW y \in S, <<x, y>> \in before PROVE rank[x] < rank[y]
  <2>1. Ahead(x) \subseteq Ahead(y) /\ x \in Ahead(y) /\ x \notin Ahead(x)
    BY <1>4 DEF StrictOrder, Ahead
  <2>2. IsFiniteSet(Ahead(y)) /\ rank[x] \in Int /\ rank[y] \in Int
    BY <1>6, <1>7
  <2>3. rank[x] <= rank[y] /\ rank[x] # rank[y]
    BY <1>2, <2>1, <2>2, FS_Subset
  <2> QED BY <2>2, <2>3
<1>5. \A k \in Slots : \E x \in S : rank[x] = k
  <2>1. rank \in [S -> Slots]
    BY <1>6
  <2>2. ASSUME NEW x \in S, NEW y \in S, rank[x] = rank[y] PROVE x = y
    <3>1. rank[x] \in Int /\ rank[y] \in Int
      BY <1>6, <1>7
    <3>2. <<x, y>> \notin before /\ <<y, x>> \notin before
      BY <1>4, <2>2, <3>1
    <3> QED BY <3>2 DEF StrictOrder
  <2>3. rank \in Injection(S, Slots)
    BY <2>1, <2>2 DEF Injection, IsInjective
  <2>4. IsFiniteSet(Slots) /\ Cardinality(Slots) = n
    <3>1. 0 \in Int /\ n - 1 \in Int /\ n = IF 0 > n - 1 THEN 0 ELSE n - 1 - 0 + 1
      BY <1>1
    <3> QED BY ONLY <3>1, FS_Interval DEF Slots
  <2>5. rank \in Surjection(S, Slots)
    BY <2>3, <2>4, FS_Injection
  <2> QED BY <2>5 DEF Surjection
<1> QED BY <1>1, <1>4, <1>5, <1>6 DEF Slots

\* A sequence of the members of S, each once and in their order.
Sorts(s, S) ==
  /\ Cardinality(S) \in Nat /\ s \in Seq(S) /\ Len(s) = Cardinality(S)
  /\ \A x \in S : \E i \in 1..Len(s) : s[i] = x
  /\ \A i, j \in 1..Len(s) : s[i] = s[j] => i = j
  /\ \A i, j \in 1..Len(s) : i < j <=> Precedes(s[i], s[j])

LEMMA FindingsAreSorted ==
  ASSUME NEW S, IsFiniteSet(S), NEW before, StrictOrder(S, before),
         \A x, y \in S : <<x, y>> \in before <=> Precedes(x, y)
  PROVE  Sorts(sortFindings(S), S)
<1>1. PICK rank : rank = [x \in S |-> Cardinality({y \in S : <<y, x>> \in before})]
  OBVIOUS
<1>2. PICK n : n = Cardinality(S)
  OBVIOUS
<1>3. PICK s : s = sortFindings(S)
  OBVIOUS
<1>4. /\ n \in Nat
      /\ \A x \in S : rank[x] \in 0..(n - 1)
      /\ \A x, y \in S : <<x, y>> \in before => rank[x] < rank[y]
      /\ \A k \in 0..(n - 1) : \E x \in S : rank[x] = k
  BY <1>1, <1>2, RanksDiffer
<1> DEFINE Ahead(x) == {y \in S : Precedes(y, x)}
<1>5. s = [k \in 1..n |-> CHOOSE x \in S : Cardinality(Ahead(x)) = k - 1]
  BY <1>2, <1>3 DEF sortFindings
<1>6. \A x \in S : rank[x] = Cardinality(Ahead(x))
  <2> TAKE x \in S
  <2>1. Ahead(x) = {y \in S : <<y, x>> \in before}
    OBVIOUS
  <2> QED BY <1>1, <2>1
<1> HIDE DEF Ahead
<1>7. ASSUME NEW k \in 1..n PROVE s[k] \in S /\ rank[s[k]] = k - 1
  <2>1. s[k] = CHOOSE x \in S : Cardinality(Ahead(x)) = k - 1
    BY <1>5
  <2>2. k - 1 \in 0..(n - 1)
    BY <1>4
  <2>3. \E x \in S : Cardinality(Ahead(x)) = k - 1
    BY <1>4, <1>6, <2>2
  <2> QED BY <1>6, <2>1, <2>3
<1>8. s \in Seq(S) /\ Len(s) = n
  <2>1. s = [k \in 1..n |-> s[k]]
    BY <1>5
  <2>2. s \in [1..n -> S]
    BY <1>7, <2>1
  <2> QED BY <1>4, <2>2
<1>9. ASSUME NEW x \in S, NEW y \in S, rank[x] = rank[y] PROVE x = y
  <2>1. rank[x] \in Int /\ rank[y] \in Int
    BY <1>4
  <2>2. <<x, y>> \notin before /\ <<y, x>> \notin before
    BY <1>4, <1>9, <2>1
  <2> QED BY <2>2 DEF StrictOrder
<1>10. ASSUME NEW x \in S PROVE \E i \in 1..n : s[i] = x
  <2>1. PICK i : i = rank[x] + 1
    OBVIOUS
  <2>2. i \in 1..n /\ i - 1 = rank[x]
    BY <1>4, <2>1
  <2> QED BY <1>7, <1>9, <2>2
<1>11. ASSUME NEW i \in 1..n, NEW j \in 1..n
       PROVE  (s[i] = s[j] => i = j) /\ (i < j <=> Precedes(s[i], s[j]))
  <2>1. s[i] \in S /\ s[j] \in S /\ rank[s[i]] = i - 1 /\ rank[s[j]] = j - 1 /\ n \in Nat
    BY <1>4, <1>7
  <2>2. s[i] = s[j] => i = j
    BY <2>1
  <2>3. <<s[i], s[j]>> \in before => i < j
    BY <1>4, <2>1
  <2>4. <<s[j], s[i]>> \in before => j < i
    BY <1>4, <2>1
  <2>5. i < j => s[i] # s[j]
    BY <2>1
  <2>6. i < j => <<s[i], s[j]>> \in before
    BY <2>1, <2>4, <2>5 DEF StrictOrder
  <2> QED BY <2>1, <2>2, <2>3, <2>6
<1> QED BY <1>2, <1>3, <1>4, <1>8, <1>10, <1>11 DEF Sorts

\* What is reported comes first, then what is waived.
Leads(F, g, f) == IF f \in F THEN g \in F /\ Precedes(g, f) ELSE g \in F \/ Precedes(g, f)
InOrder(all, F, W) ==
  /\ Len(all) \in Nat /\ DOMAIN all = 1..Len(all)
  /\ \A i \in 1..Len(all) : all[i] \in F \cup W
  /\ \A f \in F \cup W : \E i \in 1..Len(all) : all[i] = f
  /\ \A i, j \in 1..Len(all) : all[i] = all[j] => i = j
  /\ \A i, j \in 1..Len(all) : j < i <=> Leads(F, all[j], all[i])

LEMMA BothAreListed ==
  ASSUME NEW F, NEW W, F \cap W = {}, NEW s, Sorts(s, F), NEW w, Sorts(w, W)
  PROVE  /\ InOrder(s \o w, F, W) /\ Len(s \o w) = Len(s) + Len(w)
         /\ \A i \in 1..Len(s \o w) : i > Len(s) <=> (s \o w)[i] \in W
<1>1. PICK all : all = s \o w
  OBVIOUS
<1>2. PICK n, m : n = Len(s) /\ m = Len(w) /\ n \in Nat /\ m \in Nat
  BY DEF Sorts
<1>3. s \in Seq(F \cup W) /\ w \in Seq(F \cup W)
  BY SeqMonotonic DEF Sorts
<1>4. /\ all \in Seq(F \cup W) /\ Len(all) = n + m
      /\ \A i \in 1..n : all[i] = s[i]
      /\ \A i \in 1..m : all[i + n] = w[i]
  <2>1. /\ s \o w \in Seq(F \cup W) /\ Len(s \o w) = Len(s) + Len(w)
        /\ \A i \in 1..Len(s) : (s \o w)[i] = s[i]
        /\ \A j \in 1..Len(w) : (s \o w)[j + Len(s)] = w[j]
    BY ONLY <1>3, JoinedIs
  <2> QED BY ONLY <1>1, <1>2, <2>1
<1>5. DOMAIN all = 1..Len(all) /\ Len(all) \in Nat
  BY <1>2, <1>4, SeqIs
<1>6. /\ \A i \in 1..n : s[i] \in F
      /\ \A i \in 1..m : w[i] \in W
  BY <1>2 DEF Sorts
<1>7. \A i \in 1..Len(all) : i \in 1..n \/ (i - n \in 1..m /\ (i - n) + n = i /\ i > n)
  BY <1>2, <1>4
<1>8. \A i \in 1..Len(all) : /\ i \in 1..n => all[i] = s[i] /\ all[i] \in F /\ all[i] \notin W
                             /\ i \notin 1..n => all[i] = w[i - n] /\ all[i] \in W /\ all[i] \notin F
  BY <1>4, <1>6, <1>7
<1>9. ASSUME NEW f \in F \cup W PROVE \E i \in 1..Len(all) : all[i] = f
  <2>1. CASE f \in F
    <3>1. PICK i \in 1..n : s[i] = f
      BY <1>2, <2>1 DEF Sorts
    <3>2. i \in 1..Len(all)
      BY <1>2, <1>4
    <3> QED BY <1>4, <3>1, <3>2
  <2>2. CASE f \in W
    <3>1. PICK i \in 1..m : w[i] = f
      BY <1>2, <2>2 DEF Sorts
    <3>2. i + n \in 1..Len(all)
      BY <1>2, <1>4
    <3> QED BY <1>4, <3>1, <3>2
  <2> QED BY <2>1, <2>2
<1>10. ASSUME NEW i \in 1..Len(all), NEW j \in 1..Len(all)
       PROVE  (all[i] = all[j] => i = j) /\ (j < i <=> Leads(F, all[j], all[i]))
  <2>1. CASE i \in 1..n /\ j \in 1..n
    BY <1>2, <1>8, <2>1 DEF Sorts, Leads
  <2>2. CASE i \in 1..n /\ j \notin 1..n
    BY <1>2, <1>7, <1>8, <2>2 DEF Leads
  <2>3. CASE i \notin 1..n /\ j \in 1..n
    BY <1>2, <1>7, <1>8, <2>3 DEF Leads
  <2>4. CASE i \notin 1..n /\ j \notin 1..n
    <3>1. i - n \in 1..m /\ j - n \in 1..m /\ (j < i <=> j - n < i - n) /\ (i = j <=> i - n = j - n)
      BY <1>2, <1>7, <2>4
    <3>2. /\ w[i - n] = w[j - n] => i - n = j - n
          /\ j - n < i - n <=> Precedes(w[j - n], w[i - n])
      BY <1>2, <3>1 DEF Sorts
    <3> QED BY <1>8, <2>4, <3>1, <3>2 DEF Leads
  <2> QED BY <2>1, <2>2, <2>3, <2>4
<1>11. InOrder(all, F, W)
  BY <1>5, <1>8, <1>9, <1>10 DEF InOrder
<1>12. \A i \in 1..Len(all) : i > n <=> all[i] \in W
  BY <1>2, <1>7, <1>8
<1> QED BY <1>1, <1>2, <1>4, <1>11, <1>12

\* The number of a fingerprint counts findings that come earlier.
Before(F, W, f) == {g \in F \cup W : Base(g) = Base(f) /\ Leads(F, g, f)}
AlertIn(F, W, f) ==
  <<f.rule, f.file, f.line, [base |-> Base(f), nth |-> Cardinality(Before(F, W, f))]>>

LEMMA FingerprintCounts ==
  ASSUME NEW all, NEW F, NEW W, InOrder(all, F, W), NEW i \in 1..Len(all)
  PROVE  fingerprint(all, i) = [base |-> Base(all[i]), nth |-> Cardinality(Before(F, W, all[i]))]
<1> DEFINE J == {j \in 1..(i - 1) : Base(all[j]) = Base(all[i])}
<1>1. PICK N : N = Len(all) /\ N \in Nat /\ i \in 1..N
  BY DEF InOrder
<1>2. \A j \in 1..(i - 1) : j \in 1..N /\ j < i
  BY <1>1
<1>3. PICK b : b = [j \in J |-> all[j]]
  OBVIOUS
<1>4. \A j \in J : b[j] \in Before(F, W, all[i])
  <2> TAKE j \in J
  <2>1. j \in 1..N /\ j < i /\ b[j] = all[j]
    BY <1>2, <1>3
  <2>2. all[j] \in F \cup W /\ Leads(F, all[j], all[i])
    BY <1>1, <2>1 DEF InOrder
  <2> QED BY <2>1, <2>2 DEF Before
<1>5. \A g \in Before(F, W, all[i]) : \E j \in J : b[j] = g
  <2> TAKE g \in Before(F, W, all[i])
  <2>1. g \in F \cup W /\ Base(g) = Base(all[i]) /\ Leads(F, g, all[i])
    BY DEF Before
  <2>2. PICK j \in 1..N : all[j] = g
    BY <1>1, <2>1 DEF InOrder
  <2>3. j < i
    BY <1>1, <2>1, <2>2 DEF InOrder
  <2>4. j \in J
    BY <1>1, <2>1, <2>2, <2>3
  <2> QED BY <1>3, <2>2, <2>4
<1>6. \A j, k \in J : b[j] = b[k] => j = k
  <2> TAKE j, k \in J
  <2>1. j \in 1..N /\ k \in 1..N /\ b[j] = all[j] /\ b[k] = all[k]
    BY <1>2, <1>3
  <2> QED BY <1>1, <2>1 DEF InOrder
<1>7. IsFiniteSet(J)
  <2>1. IsFiniteSet(1..(i - 1))
    BY <1>1, FS_Interval
  <2> QED BY <2>1, FS_Subset
<1>8. Cardinality(J) = Cardinality(Before(F, W, all[i]))
  <2>1. b \in [J -> Before(F, W, all[i])]
    BY <1>3, <1>4
  <2> HIDE DEF J
  <2>2. b \in Bijection(J, Before(F, W, all[i]))
    BY <1>5, <1>6, <2>1 DEF Bijection, Injection, Surjection, IsInjective
  <2> QED BY <1>7, <2>2, FS_Bijection DEF ExistsBijection
<1> QED BY <1>8 DEF fingerprint


\* What file, line and the place of its rule tell apart can be put in order.
IsOrderly(S) ==
  /\ IsFiniteSet(S)
  /\ \A f \in S : f.severity \in Int /\ f.line \in Int /\ f.nth \in Int /\ f.file \in ToSet(PathOrder)
  /\ \A f, g \in S : f.file = g.file /\ f.line = g.line /\ f.nth = g.nth => f = g

LEMMA PathsHavePlaces ==
  \A p \in ToSet(PathOrder) : PlaceOf(p) \in Int /\ PathOrder[PlaceOf(p)] = p
<1> TAKE p \in ToSet(PathOrder)
<1>1. PICK i \in DOMAIN PathOrder : PathOrder[i] = p
  BY DEF ToSet
<1>2. PlaceOf(p) \in DOMAIN PathOrder /\ PathOrder[PlaceOf(p)] = p
  BY <1>1 DEF PlaceOf
<1>3. DOMAIN PathOrder \subseteq Int
  BY PathsAreOrdered DEF IsSeq
<1> QED BY <1>2, <1>3

\* The four things that findings are ordered by, as numbers.
Lex(s, p, l, n, t, q, m, o) ==
  \/ s > t
  \/ s = t /\ p < q
  \/ s = t /\ p = q /\ l < m
  \/ s = t /\ p = q /\ l = m /\ n < o

LEMMA OrderlyIsStrict ==
  ASSUME NEW S, IsOrderly(S), NEW before, before = {x \in S \X S : Precedes(x[1], x[2])}
  PROVE  StrictOrder(S, before) /\ \A x, y \in S : <<x, y>> \in before <=> Precedes(x, y)
<1>1. \A x, y \in S : <<x, y>> \in before <=> Precedes(x, y)
  OBVIOUS
<1>2. PICK sev, place, line, nth :
        \A f \in S : sev[f] = f.severity /\ place[f] = PlaceOf(f.file) /\ line[f] = f.line /\ nth[f] = f.nth
  <2>1. PICK sev : sev = [f \in S |-> f.severity]
    OBVIOUS
  <2>2. PICK place : place = [f \in S |-> PlaceOf(f.file)]
    OBVIOUS
  <2>3. PICK line : line = [f \in S |-> f.line]
    OBVIOUS
  <2>4. PICK nth : nth = [f \in S |-> f.nth]
    OBVIOUS
  <2>5. \A f \in S : sev[f] = f.severity /\ place[f] = PlaceOf(f.file) /\ line[f] = f.line /\ nth[f] = f.nth
    BY <2>1, <2>2, <2>3, <2>4
  <2> QED BY <2>5
<1>3. \A f \in S : sev[f] \in Int /\ place[f] \in Int /\ line[f] \in Int /\ nth[f] \in Int
  BY <1>2, PathsHavePlaces DEF IsOrderly
<1>4. \A f, g \in S : f.file = g.file <=> place[f] = place[g]
  <2> TAKE f, g \in S
  <2>1. PathOrder[PlaceOf(f.file)] = f.file /\ PathOrder[PlaceOf(g.file)] = g.file
    BY PathsHavePlaces DEF IsOrderly
  <2> QED BY <1>2, <2>1
<1>5. \A f, g \in S : Precedes(f, g) <=>
        Lex(sev[f], place[f], line[f], nth[f], sev[g], place[g], line[g], nth[g])
  <2> TAKE f, g \in S
  <2>1. f.file = g.file => ~(place[f] < place[g])
    BY <1>3, <1>4
  <2>2. f.file = g.file <=> place[f] = place[g]
    BY <1>4
  <2>3. place[f] < place[g] => f.file # g.file
    BY <1>3, <1>4
  <2>4. /\ sev[f] = f.severity /\ place[f] = PlaceOf(f.file) /\ line[f] = f.line /\ nth[f] = f.nth
        /\ sev[g] = g.severity /\ place[g] = PlaceOf(g.file) /\ line[g] = g.line /\ nth[g] = g.nth
    BY <1>2
  <2> QED BY ONLY <2>1, <2>2, <2>3, <2>4 DEF Precedes, Lex
<1>6. \A f, g \in S : place[f] = place[g] /\ line[f] = line[g] /\ nth[f] = nth[g] => f = g
  BY <1>2, <1>4 DEF IsOrderly
<1>7. ASSUME NEW x \in S PROVE <<x, x>> \notin before
  BY <1>1, <1>3, <1>5 DEF Lex
<1>8. ASSUME NEW x \in S, NEW y \in S, NEW z \in S, <<x, y>> \in before, <<y, z>> \in before
      PROVE  <<x, z>> \in before
  <2>1. /\ Lex(sev[x], place[x], line[x], nth[x], sev[y], place[y], line[y], nth[y])
        /\ Lex(sev[y], place[y], line[y], nth[y], sev[z], place[z], line[z], nth[z])
    BY <1>1, <1>5, <1>8
  <2>2. /\ sev[x] \in Int /\ place[x] \in Int /\ line[x] \in Int /\ nth[x] \in Int
        /\ sev[y] \in Int /\ place[y] \in Int /\ line[y] \in Int /\ nth[y] \in Int
        /\ sev[z] \in Int /\ place[z] \in Int /\ line[z] \in Int /\ nth[z] \in Int
    BY <1>3
  <2>3. Lex(sev[x], place[x], line[x], nth[x], sev[z], place[z], line[z], nth[z])
    BY ONLY <2>1, <2>2 DEF Lex
  <2> QED BY <1>1, <1>5, <2>3
<1>9. ASSUME NEW x \in S, NEW y \in S, x # y PROVE <<x, y>> \in before \/ <<y, x>> \in before
  <2>1. ~(place[x] = place[y] /\ line[x] = line[y] /\ nth[x] = nth[y])
    BY <1>6, <1>9
  <2>2. /\ sev[x] \in Int /\ place[x] \in Int /\ line[x] \in Int /\ nth[x] \in Int
        /\ sev[y] \in Int /\ place[y] \in Int /\ line[y] \in Int /\ nth[y] \in Int
    BY <1>3
  <2>3. \/ Lex(sev[x], place[x], line[x], nth[x], sev[y], place[y], line[y], nth[y])
        \/ Lex(sev[y], place[y], line[y], nth[y], sev[x], place[x], line[x], nth[x])
    BY ONLY <2>1, <2>2 DEF Lex
  <2> QED BY <1>1, <1>5, <2>3
<1>10. StrictOrder(S, before)
  BY <1>7, <1>8, <1>9 DEF StrictOrder
<1> QED BY <1>1, <1>10

LEMMA OrderlyIsSorted ==
  ASSUME NEW S, IsOrderly(S)
  PROVE  Sorts(sortFindings(S), S)
<1>1. PICK before : before = {x \in S \X S : Precedes(x[1], x[2])}
  OBVIOUS
<1>2. StrictOrder(S, before) /\ \A x, y \in S : <<x, y>> \in before <=> Precedes(x, y)
  BY <1>1, OrderlyIsStrict
<1>3. IsFiniteSet(S)
  BY DEF IsOrderly
<1> QED BY ONLY <1>2, <1>3, FindingsAreSorted

LEMMA PartIsOrderly ==
  ASSUME NEW S, IsOrderly(S), NEW T, T \subseteq S
  PROVE  IsOrderly(T)
<1>1. IsFiniteSet(T)
  BY FS_Subset DEF IsOrderly
<1> QED BY <1>1 DEF IsOrderly

-----------------------------------------------------------------------------
(* What a scan reports can be put in order.                                 *)

Readable(w) ==
  /\ IsFiniteSet(DOMAIN w) /\ \A p \in DOMAIN w : IsSeq(w[p].text)
  /\ SkillMD \in Files(w) /\ Files(w) \subseteq ToSet(PathOrder)
Ruled(rules) == IsSeq(rules) /\ \A i \in DOMAIN rules : IsRule(rules[i])

LEMMA OffsetsAre ==
  ASSUME NEW w, Readable(w)
  PROVE  \A t \in Targets(LoadBundle(w)) : t.offset \in Nat /\ t.file \in ToSet(PathOrder)
<1>1. PICK sk : sk = ParseSkillMD(w[SkillMD].text)
  OBVIOUS
<1>2. Targets(LoadBundle(w)) = SkillTargets(sk) \cup {FileTarget(w, p) : p \in Scannable(w)}
  BY <1>1, TargetsAre
<1>3. \A t \in SkillTargets(sk) : t.file \in ToSet(PathOrder)
  BY <1>1, TargetsAre DEF Readable
<1>4. PICK text, S : text = w[SkillMD].text /\ S = ToSet(text)
  OBVIOUS
<1>5. text \in Seq(S)
  <2>1. SkillMD \in DOMAIN w
    BY DEF Readable, Files, Walked
  <2> QED BY <1>4, <2>1 DEF Readable, IsSeq
<1>6. (sk.present => sk.frontOffset \in Nat) /\ sk.bodyOffset \in Nat
  <2>1. CASE Undivided(sk, text)
    BY <2>1 DEF Undivided
  <2>2. CASE \E end \in 3..Len(text) : Split(sk, S, text, end)
    <3>1. PICK end \in 3..Len(text) : Split(sk, S, text, end)
      BY <2>2
    <3>2. end \in Nat
      BY <1>5
    <3> QED BY <3>1, <3>2 DEF Split
  <2> QED BY <1>1, <1>4, <1>5, <2>1, <2>2, ParsedIs
<1>7. \A t \in SkillTargets(sk) : t.offset \in Nat
  <2>1. Target("body", "", SkillMD, sk.body, sk.bodyOffset).offset = sk.bodyOffset
    BY DEF Target
  <2>2. Target("manifest", "", SkillMD, sk.front, sk.frontOffset).offset = sk.frontOffset
    BY DEF Target
  <2>3. ASSUME NEW t \in SkillTargets(sk)
        PROVE  \/ t = Target("body", "", SkillMD, sk.body, sk.bodyOffset)
               \/ sk.present /\ t = Target("manifest", "", SkillMD, sk.front, sk.frontOffset)
    BY DEF SkillTargets
  <2> QED BY <1>6, <2>1, <2>2, <2>3
<1>8. \A p \in Scannable(w) : FileTarget(w, p).offset \in Nat /\ FileTarget(w, p).file \in ToSet(PathOrder)
  BY DEF FileTarget, Target, Scannable, Readable
<1> QED BY <1>2, <1>3, <1>7, <1>8

LEMMA UnloweredIs ==
  ASSUME NEW w, Readable(w), NEW rules, Ruled(rules), NEW U, U = Unlowered(rules, LoadBundle(w))
  PROVE  /\ IsFiniteSet(U)
         /\ \A h \in U : /\ h \in Hits(rules, Targets(LoadBundle(w))) /\ IsFinding(h)
                         /\ h.severity \in Info..Critical /\ h.line \in Int /\ h.nth \in DOMAIN rules
                         /\ h.rule = rules[h.nth].id /\ h.file \in ToSet(PathOrder)
         /\ \A g, h \in U : SameKey(g, h) => g = h
<1>1. PICK T : T = Targets(LoadBundle(w))
  OBVIOUS
<1>2. IsFiniteSet(T) /\ \A t \in T : IsSeq(t.text)
  BY <1>1, TargetsAreFinite DEF Readable
<1>3. \A t \in T : t.offset \in Nat /\ t.file \in ToSet(PathOrder)
  BY <1>1, OffsetsAre
<1>4. PICK H : H = Hits(rules, T)
  OBVIOUS
<1>5. IsSeq(rules) /\ \A i \in DOMAIN rules : IsRule(rules[i])
  BY DEF Ruled
<1>6. /\ IsFiniteSet(H)
      /\ \A h \in H : h.severity \in Info..Critical /\ h.confidence \in 0..100
  BY <1>2, <1>4, <1>5, HitsAreFinite
<1>7. U = Dedup(H)
  BY <1>1, <1>4 DEF Unlowered
<1>8. U \subseteq H
  BY <1>7 DEF Dedup
<1>9. ASSUME NEW h \in H
      PROVE  /\ IsFinding(h) /\ h.line \in Int /\ h.nth \in DOMAIN rules
             /\ h.rule = rules[h.nth].id /\ h.file \in ToSet(PathOrder)
  <2>1. PICK n \in DOMAIN rules, t \in T : AppliesTo(rules[n], t) /\ h \in Evaluate(rules[n], n, t)
    BY <1>4, HitsAre
  <2>2. PICK r : r = rules[n]
    OBVIOUS
  <2>3. IsRule(r) /\ IsSeq(t.text) /\ t.offset \in Nat /\ t.file \in ToSet(PathOrder)
    BY <1>2, <1>3, <1>5, <2>2
  <2>4. PICK m : m.line \in DOMAIN t.text \cup {1} /\ h = FindingAt(r, n, t, m)
    BY <2>1, <2>2, <2>3, EvaluateAt
  <2>5. /\ IsFinding(h) /\ h.rule = r.id /\ h.nth = n /\ h.file = t.file /\ h.line = m.line + t.offset
    BY <2>4, FindingFields
  <2>6. m.line \in Int
    BY <2>3, <2>4 DEF IsSeq
  <2>7. h.line \in Int
    BY <2>3, <2>5, <2>6
  <2> QED BY <2>2, <2>3, <2>5, <2>7
<1>10. \A i \in DOMAIN rules : i \in Int
  BY <1>5 DEF IsSeq
<1>11. ASSUME NEW g \in U, NEW h \in U, SameKey(g, h), g # h PROVE FALSE
  <2>1. Surer(g, h)
    BY <1>7, <1>8, <1>11 DEF Dedup
  <2>2. Surer(h, g)
    <3>1. SameKey(h, g)
      BY <1>11 DEF SameKey
    <3> QED BY <1>7, <1>8, <1>11, <3>1 DEF Dedup
  <2>3. g.confidence \in Int /\ h.confidence \in Int /\ g.nth \in Int /\ h.nth \in Int
    BY <1>6, <1>8, <1>9, <1>10
  <2> QED BY ONLY <2>1, <2>2, <2>3 DEF Surer
<1>12. IsFiniteSet(U)
  BY <1>6, <1>8, FS_Subset
<1>13. \A h \in U : /\ h \in H /\ IsFinding(h)
                    /\ h.severity \in Info..Critical /\ h.line \in Int /\ h.nth \in DOMAIN rules
                    /\ h.rule = rules[h.nth].id /\ h.file \in ToSet(PathOrder)
  BY <1>6, <1>8, <1>9
<1> QED BY <1>1, <1>4, <1>11, <1>12, <1>13

\* What a log is made of: findings in order, and no two of a rule in a line.
Listable(F, W) ==
  /\ IsOrderly(F \cup W) /\ F \cap W = {}
  /\ \A f \in F \cup W : IsFinding(f)
  /\ \A f, g \in F \cup W : SameKey(f, g) => f = g

\* Each rule with the severities that it reports.
Says(S) == {<<f.rule, f.original>> : f \in S}

LEMMA LoweredIs ==
  ASSUME NEW rules, NEW b, NEW h \in Hits(rules, Targets(b)), h.severity \in Info..Critical, IsFinding(h),
         NEW contexts, \A c \in contexts : IsContext(c), NEW f, f = Lowered(contexts, b, h)
  PROVE  /\ IsFinding(f) /\ f.severity \in Int /\ Uncap(f) = h /\ f = [h EXCEPT !.severity = f.severity]
         /\ f.file = h.file /\ f.line = h.line /\ f.nth = h.nth /\ f.rule = h.rule /\ f.original = h.original
<1>1. PICK caps : caps = ContextCaps(contexts, Targets(b))
  OBVIOUS
<1>2. f = ApplyCaps(caps, h)
  BY <1>1 DEF Lowered
<1>3. PICK n, t : h \in Evaluate(rules[n], n, t)
  BY HitsAre
<1>4. PICK m : h = FindingAt(rules[n], n, t, m)
  BY <1>3, EvaluateGives
<1>5. PICK s : f = [h EXCEPT !.severity = s]
  <2>1. \A r : \E s : ApplyCaps(caps, FindingAt(r, n, t, m)) = [FindingAt(r, n, t, m) EXCEPT !.severity = s]
    BY ONLY CapChanges
  <2>2. \E s : ApplyCaps(caps, h) = [h EXCEPT !.severity = s]
    BY ONLY <1>4, <2>1
  <2> QED BY <1>2, <2>2
<1>6. f = [rule |-> h.rule, nth |-> h.nth, severity |-> s, original |-> h.original, layer |-> h.layer,
           file |-> h.file, line |-> h.line, excerpt |-> h.excerpt, confidence |-> h.confidence]
  BY <1>5 DEF IsFinding
<1>7. IsFinding(f) /\ f.severity = s
  BY <1>6 DEF IsFinding
<1>8. f.severity \in Int
  <2>1. "severity" \in DOMAIN h
    BY DEF IsFinding
  <2>2. f.severity \in Info..h.severity
    BY <1>1, <1>2, <2>1, CapLowers
  <2> QED BY <2>2 DEF Info, Critical
<1>9. /\ Uncap(f) = h /\ f.file = h.file /\ f.line = h.line /\ f.nth = h.nth /\ f.rule = h.rule
      /\ f.original = h.original
  BY <1>2, CapIsUndone
<1> QED BY <1>5, <1>7, <1>8, <1>9

IsScan(scan, w, rules, contexts, policy) ==
  /\ scan = Scan(LoadBundle(w), rules, contexts, policy)
  /\ Readable(w) /\ Ruled(rules) /\ \A c \in contexts : IsContext(c)

LEMMA ScanIsListable ==
  ASSUME NEW scan, NEW w, NEW rules, NEW contexts, NEW policy, IsScan(scan, w, rules, contexts, policy)
  PROVE  /\ Listable(scan.findings, scan.waived)
         /\ Says(scan.findings \cup scan.waived) = Says(Unlowered(rules, LoadBundle(w)))
<1>a. PICK b : b = LoadBundle(w)
  OBVIOUS
<1>b. /\ scan = Scan(b, rules, contexts, policy)
      /\ Readable(w) /\ Ruled(rules) /\ \A c \in contexts : IsContext(c)
  BY <1>a DEF IsScan
<1>1. PICK U : U = Unlowered(rules, b)
  OBVIOUS
<1>2. PICK low : low = [h \in U |-> Lowered(contexts, b, h)]
  OBVIOUS
<1>3. /\ IsFiniteSet(U)
      /\ \A h \in U : /\ h \in Hits(rules, Targets(b)) /\ IsFinding(h)
                      /\ h.severity \in Info..Critical /\ h.line \in Int /\ h.nth \in DOMAIN rules
                      /\ h.rule = rules[h.nth].id /\ h.file \in ToSet(PathOrder)
      /\ \A g, h \in U : SameKey(g, h) => g = h
  BY <1>1, <1>a, <1>b, UnloweredIs
<1>4. ASSUME NEW h \in U
      PROVE  /\ IsFinding(low[h]) /\ low[h].severity \in Int /\ Uncap(low[h]) = h
             /\ low[h].file = h.file /\ low[h].line = h.line /\ low[h].nth = h.nth
             /\ low[h].rule = h.rule /\ low[h].original = h.original
  BY <1>2, <1>3, <1>b, LoweredIs
<1>5. PICK in, out : in = {h \in U : ~Out(h, b, policy)} /\ out = {h \in U : Out(h, b, policy)}
  OBVIOUS
<1>6. scan.findings = {low[h] : h \in in} /\ scan.waived = {low[h] : h \in out}
  <2>1. /\ scan.findings = {Lowered(contexts, b, h) : h \in in}
        /\ scan.waived = {Lowered(contexts, b, h) : h \in out}
    BY <1>1, <1>5, <1>b, ScanIs
  <2>2. (\A h \in in : low[h] = Lowered(contexts, b, h)) /\ \A h \in out : low[h] = Lowered(contexts, b, h)
    BY <1>2, <1>5
  <2> QED BY ONLY <2>1, <2>2
<1>7. in \cup out = U /\ in \cap out = {}
  BY <1>5
<1>8. PICK S : S = scan.findings \cup scan.waived
  OBVIOUS
<1>9. S = {low[h] : h \in U}
  BY <1>6, <1>7, <1>8
<1>10. \A g, h \in U : low[g] = low[h] => g = h
  BY <1>4
<1>11. IsFiniteSet(S)
  BY <1>3, <1>9, ImageIsFinite
<1>12. \A i \in DOMAIN rules : i \in Int
  BY <1>b DEF Ruled, IsSeq
<1>13. ASSUME NEW f \in S
       PROVE  IsFinding(f) /\ f.severity \in Int /\ f.line \in Int /\ f.nth \in Int /\ f.file \in ToSet(PathOrder)
  <2>1. PICK h \in U : f = low[h]
    BY <1>9
  <2> QED BY <1>3, <1>4, <1>12, <2>1
<1>14. ASSUME NEW f \in S, NEW g \in S
       PROVE  /\ SameKey(f, g) => f = g
              /\ f.file = g.file /\ f.line = g.line /\ f.nth = g.nth => f = g
  <2>1. PICK h \in U : f = low[h]
    BY <1>9
  <2>2. PICK k \in U : g = low[k]
    BY <1>9
  <2>3. SameKey(f, g) => SameKey(h, k)
    BY <1>4, <2>1, <2>2 DEF SameKey
  <2>4. f.file = g.file /\ f.line = g.line /\ f.nth = g.nth => SameKey(h, k)
    BY <1>3, <1>4, <2>1, <2>2 DEF SameKey
  <2> QED BY <1>3, <2>1, <2>2, <2>3, <2>4
<1>15. scan.findings \cap scan.waived = {}
  BY <1>6, <1>7, <1>10
<1>16. Listable(scan.findings, scan.waived)
  BY ONLY <1>8, <1>11, <1>13, <1>14, <1>15 DEF Listable, IsOrderly
<1>17. Says(S) = Says(U)
  BY <1>4, <1>9 DEF Says
<1> QED BY <1>1, <1>8, <1>16, <1>17, <1>a

-----------------------------------------------------------------------------
(* What a log says.                                                         *)

\* How rules are described, by the severities that each reports.
Described(P) ==
  [id \in {p[1] : p \in P} |-> sarifLevel(Max({p[2] : p \in {p \in P : p[1] = id}}))]

LEMMA RulesAre ==
  ASSUME NEW all, NEW P, P = {<<all[i].rule, all[i].original>> : i \in DOMAIN all}
  PROVE  sarifRules(all) = Described(P)
<1>1. \A f : ruleSeverity(f) = f.original
  BY DEF ruleSeverity, Demoted
<1>a. \A p \in P : \E i \in DOMAIN all : p[1] = all[i].rule /\ p[2] = all[i].original
  OBVIOUS
<1>b. \A i \in DOMAIN all : \E p \in P : p[1] = all[i].rule /\ p[2] = all[i].original
  <2> TAKE i \in DOMAIN all
  <2>1. PICK p : p = <<all[i].rule, all[i].original>>
    OBVIOUS
  <2>2. p \in P /\ p[1] = all[i].rule /\ p[2] = all[i].original
    BY <2>1
  <2> QED BY <2>2
<1>2. {p[1] : p \in P} = {all[i].rule : i \in DOMAIN all}
  BY ONLY <1>a, <1>b
<1>3. ASSUME NEW id
      PROVE  {p[2] : p \in {p \in P : p[1] = id}} =
               {ruleSeverity(all[i]) : i \in {i \in DOMAIN all : all[i].rule = id}}
  <2>1. {ruleSeverity(all[i]) : i \in {i \in DOMAIN all : all[i].rule = id}} =
          {all[i].original : i \in {i \in DOMAIN all : all[i].rule = id}}
    BY <1>1
  <2>2. {p[2] : p \in {p \in P : p[1] = id}} =
          {all[i].original : i \in {i \in DOMAIN all : all[i].rule = id}}
    BY ONLY <1>a, <1>b
  <2> QED BY <2>1, <2>2
<1>4. Described(P) = [id \in {all[i].rule : i \in DOMAIN all} |->
        sarifLevel(Max({ruleSeverity(all[i]) : i \in {i \in DOMAIN all : all[i].rule = id}}))]
  BY <1>2, <1>3 DEF Described
<1> QED BY <1>4 DEF sarifRules

\* Of two results the later has more of its base before it.
LEMMA FingerprintsDiffer ==
  ASSUME NEW all, NEW n \in Nat, NEW j \in 1..n, NEW i \in 1..(j - 1),
         fingerprint(all, i) = fingerprint(all, j)
  PROVE  FALSE
<1>1. PICK A : A = {k \in 1..(i - 1) : Base(all[k]) = Base(all[i])}
  OBVIOUS
<1>2. PICK B : B = {k \in 1..(j - 1) : Base(all[k]) = Base(all[j])}
  OBVIOUS
<1>3. /\ fingerprint(all, i) = [base |-> Base(all[i]), nth |-> Cardinality(A)]
      /\ fingerprint(all, j) = [base |-> Base(all[j]), nth |-> Cardinality(B)]
  BY <1>1, <1>2 DEF fingerprint
<1>4. Base(all[i]) = Base(all[j]) /\ Cardinality(A) = Cardinality(B)
  <2>1. PICK a, b, k, m : a = Base(all[i]) /\ b = Base(all[j]) /\ k = Cardinality(A) /\ m = Cardinality(B)
    OBVIOUS
  <2>2. [base |-> a, nth |-> k] = [base |-> b, nth |-> m]
    BY <1>3, <2>1
  <2>3. a = b /\ k = m
    BY ONLY <2>2
  <2> QED BY <2>1, <2>3
<1>5. A \subseteq B /\ i \in B /\ i \notin A
  <2>1. i \notin 1..(i - 1) /\ \A k \in 1..(i - 1) : k \in 1..(j - 1)
    OBVIOUS
  <2> QED BY <1>1, <1>2, <1>4, <2>1
<1>6. IsFiniteSet(B)
  <2>1. 1 \in Int /\ j - 1 \in Int
    OBVIOUS
  <2>2. IsFiniteSet(1..(j - 1))
    BY ONLY <2>1, FS_Interval
  <2> QED BY <1>2, <2>2, FS_Subset
<1>7. Cardinality(A) # Cardinality(B)
  BY ONLY <1>5, <1>6, FS_Subset
<1> QED BY <1>4, <1>7

Numbered(log, all, n) ==
  /\ n \in Nat /\ log.results = [i \in 1..n |-> log.results[i]]
  /\ \A i \in 1..n : log.results[i].fingerprint = fingerprint(all, i)

LEMMA ResultsAreApart ==
  ASSUME NEW n, NEW all, NEW log, Numbered(log, all, n)
  PROVE  Apart(log)
<1>1. PICK r : r = log.results
  OBVIOUS
<1>0. n \in Nat
  BY DEF Numbered
<1>2. r = [i \in 1..n |-> r[i]] /\ DOMAIN r = 1..n /\ \A i \in 1..n : r[i].fingerprint = fingerprint(all, i)
  BY <1>1 DEF Numbered
<1>3. Len(r) = n
  <2>1. r \in [1..n -> {r[i] : i \in 1..n}]
    BY <1>2
  <2> QED BY <1>0, <2>1
<1>4. PICK X : X = {r[i].fingerprint : i \in DOMAIN r}
  OBVIOUS
<1>5. PICK p : p = [i \in 1..n |-> fingerprint(all, i)]
  OBVIOUS
<1>6. p \in [1..n -> X] /\ \A x \in X : \E i \in 1..n : p[i] = x
  BY <1>2, <1>4, <1>5
<1>7. \A i, j \in 1..n : p[i] = p[j] => i = j
  <2> TAKE i, j \in 1..n
  <2> HAVE p[i] = p[j]
  <2>1. fingerprint(all, i) = fingerprint(all, j)
    BY <1>5
  <2>2. ~(i \in 1..(j - 1))
    BY <1>0, <2>1, FingerprintsDiffer
  <2>3. ~(j \in 1..(i - 1))
    BY <1>0, <2>1, FingerprintsDiffer
  <2> QED BY <1>0, <2>2, <2>3
<1>8. p \in Bijection(1..n, X)
  BY ONLY <1>6, <1>7 DEF Bijection, Injection, Surjection, IsInjective
<1>9. IsFiniteSet(1..n) /\ Cardinality(1..n) = n
  <2>1. 1 \in Int /\ n \in Int /\ n = IF 1 > n THEN 0 ELSE n - 1 + 1
    BY <1>0
  <2> QED BY ONLY <2>1, FS_Interval
<1>10. Cardinality(X) = n
  BY ONLY <1>8, <1>9, FS_Bijection DEF ExistsBijection
<1> QED BY <1>1, <1>3, <1>4, <1>10 DEF Apart

\* The findings of a log, one after the other.
Logged(all, F, W) ==
  /\ all \in Seq(F \cup W) /\ InOrder(all, F, W)
  /\ all = sortFindings(F) \o sortFindings(W)

LEMMA BothAreLogged ==
  ASSUME NEW F, NEW W, Listable(F, W)
  PROVE  \E all : Logged(all, F, W)
<1>1. PICK s, w : s = sortFindings(F) /\ w = sortFindings(W)
  OBVIOUS
<1>2. IsOrderly(F \cup W) /\ F \cap W = {}
  BY DEF Listable
<1>3. IsOrderly(F) /\ IsOrderly(W)
  <2>1. F \subseteq F \cup W /\ W \subseteq F \cup W
    OBVIOUS
  <2> QED BY ONLY <1>2, <2>1, PartIsOrderly
<1>4. Sorts(s, F) /\ Sorts(w, W)
  BY ONLY <1>1, <1>3, OrderlyIsSorted
<1>5. InOrder(s \o w, F, W)
  BY ONLY <1>2, <1>4, BothAreListed
<1>6. s \o w \in Seq(F \cup W)
  <2>1. s \in Seq(F) /\ w \in Seq(W)
    BY ONLY <1>4 DEF Sorts
  <2>2. s \in Seq(F \cup W) /\ w \in Seq(F \cup W)
    BY <2>1
  <2> QED BY ONLY <2>2, ConcatProperties
<1> QED BY <1>1, <1>5, <1>6 DEF Logged

LEMMA SaysIs ==
  ASSUME NEW all, NEW F, NEW W, InOrder(all, F, W)
  PROVE  Says(F \cup W) = {<<all[i].rule, all[i].original>> : i \in DOMAIN all}
<1>1. DOMAIN all = 1..Len(all) /\ (\A i \in 1..Len(all) : all[i] \in F \cup W)
      /\ \A f \in F \cup W : \E i \in 1..Len(all) : all[i] = f
  BY DEF InOrder
<1> QED BY <1>1 DEF Says

LEMMA AlertsAre ==
  ASSUME NEW all, NEW F, NEW W, InOrder(all, F, W), NEW i \in 1..Len(all), NEW waived
  PROVE  Alert(sarifResultFor(all, i, waived)) = AlertIn(F, W, all[i])
<1>1. fingerprint(all, i) = [base |-> Base(all[i]), nth |-> Cardinality(Before(F, W, all[i]))]
  BY FingerprintCounts
<1>2. LET r == sarifResultFor(all, i, waived)
      IN r.rule = all[i].rule /\ r.file = all[i].file /\ r.line = all[i].line /\ r.fingerprint = fingerprint(all, i)
  BY DEF sarifResultFor
<1> QED BY <1>1, <1>2 DEF Alert, AlertIn

\* What a log says depends on the findings alone, not on how they are sorted.
AlertsIn(F, W) == {AlertIn(F, W, f) : f \in F \cup W}
Gives(scan, F, W) == F = scan.findings /\ W = scan.waived /\ Listable(F, W)

LEMMA LogSays ==
  ASSUME NEW scan, NEW F, NEW W, Gives(scan, F, W)
  PROVE  /\ SARIF(scan).rules = Described(Says(F \cup W))
         /\ Alerts(SARIF(scan)) = AlertsIn(F, W)
         /\ Apart(SARIF(scan))
<1>0. F = scan.findings /\ W = scan.waived /\ Listable(F, W)
  BY DEF Gives
<1>1. PICK all : Logged(all, F, W)
  BY <1>0, BothAreLogged
<1>2. PICK log : log = SARIF(scan)
  OBVIOUS
<1>3. PICK n : n = Len(all)
  OBVIOUS
<1>4. InOrder(all, F, W) /\ n \in Nat /\ DOMAIN all = 1..n
  BY <1>1, <1>3 DEF Logged, InOrder
<1>5. PICK g : g = [i \in 1..n |-> sarifResultFor(all, i, i > Len(sortFindings(F)))]
  OBVIOUS
<1>6. log.rules = sarifRules(all) /\ log.results = [i \in 1..n |-> g[i]]
  <2>1. all = Ordered(scan).findings \o Ordered(scan).waived /\ Ordered(scan).findings = sortFindings(F)
    BY <1>0, <1>1 DEF Logged, Ordered
  <2>2. log = [rules |-> sarifRules(all), results |-> resultsOf(Ordered(scan), all), verdict |-> scan.verdict]
    BY <1>2, <2>1 DEF SARIF, logOf
  <2>3. resultsOf(Ordered(scan), all) = [i \in 1..n |-> sarifResultFor(all, i, i > Len(sortFindings(F)))]
    BY <1>4, <2>1 DEF resultsOf
  <2>4. [i \in 1..n |-> sarifResultFor(all, i, i > Len(sortFindings(F)))] = [i \in 1..n |-> g[i]]
    BY <1>5
  <2> QED BY <2>2, <2>3, <2>4
<1>7. log.rules = Described(Says(F \cup W))
  <2>1. PICK P : P = {<<all[i].rule, all[i].original>> : i \in DOMAIN all}
    OBVIOUS
  <2>2. Says(F \cup W) = P
    BY <1>4, <2>1, SaysIs
  <2>3. sarifRules(all) = Described(P)
    BY ONLY <2>1, RulesAre
  <2> QED BY <1>6, <2>2, <2>3
<1>8. \A i \in 1..n : g[i].fingerprint = fingerprint(all, i)
  BY <1>5 DEF sarifResultFor
<1>9. Apart(log)
  <2>1. Numbered(log, all, n)
    BY <1>4, <1>6, <1>8 DEF Numbered
  <2> QED BY ONLY <2>1, ResultsAreApart
<1>10. Alerts(log) = {AlertIn(F, W, f) : f \in F \cup W}
  <2>1. \A i \in 1..n : Alert(g[i]) = AlertIn(F, W, all[i])
    BY <1>3, <1>4, <1>5, AlertsAre
  <2>2. Alerts(log) = {Alert(g[i]) : i \in 1..n}
    <3>1. PICK r : r = log.results
      OBVIOUS
    <3>2. DOMAIN r = 1..n /\ \A i \in 1..n : r[i] = g[i]
      BY <1>6, <3>1
    <3>3. Alerts(log) = {Alert(r[i]) : i \in DOMAIN r}
      BY <3>1 DEF Alerts
    <3> QED BY <3>2, <3>3
  <2>3. (\A i \in 1..n : all[i] \in F \cup W) /\ \A f \in F \cup W : \E i \in 1..n : all[i] = f
    BY <1>3, <1>4 DEF InOrder
  <2> QED BY ONLY <2>1, <2>2, <2>3
<1> QED BY <1>2, <1>7, <1>9, <1>10 DEF AlertsIn

-----------------------------------------------------------------------------
(* The order of the rules decides between equals, and two findings of one   *)
(* base never are.                                                          *)

Distinct(rules) == \A m, n \in DOMAIN rules : rules[m].id = rules[n].id => m = n
Turned(f, N) == [f EXCEPT !.nth = N + 1 - @]

LEMMA TurnedIs ==
  ASSUME NEW f, IsFinding(f), NEW N \in Nat, f.nth \in 1..N, NEW g, g = Turned(f, N)
  PROVE  /\ IsFinding(g) /\ Turned(g, N) = f /\ Base(g) = Base(f)
         /\ g.nth \in 1..N /\ g.nth = N + 1 - f.nth
         /\ g.rule = f.rule /\ g.severity = f.severity /\ g.original = f.original /\ g.layer = f.layer
         /\ g.file = f.file /\ g.line = f.line /\ g.excerpt = f.excerpt /\ g.confidence = f.confidence
<1>1. PICK n : n = N + 1 - f.nth
  OBVIOUS
<1>2. g = [rule |-> f.rule, nth |-> n, severity |-> f.severity, original |-> f.original, layer |-> f.layer,
           file |-> f.file, line |-> f.line, excerpt |-> f.excerpt, confidence |-> f.confidence]
  BY <1>1 DEF Turned, IsFinding
<1>3. n \in 1..N /\ N + 1 - n = f.nth
  BY <1>1
<1>4. /\ IsFinding(g) /\ g.nth = n
      /\ g.rule = f.rule /\ g.severity = f.severity /\ g.original = f.original /\ g.layer = f.layer
      /\ g.file = f.file /\ g.line = f.line /\ g.excerpt = f.excerpt /\ g.confidence = f.confidence
  BY <1>2 DEF IsFinding
<1>5. Turned(g, N) = f
  <2>1. Turned(g, N) = [rule |-> f.rule, nth |-> f.nth, severity |-> f.severity, original |-> f.original,
           layer |-> f.layer, file |-> f.file, line |-> f.line, excerpt |-> f.excerpt, confidence |-> f.confidence]
    <3>1. PICK k : k = f.nth /\ k = N + 1 - g.nth
      BY <1>3, <1>4
    <3>2. Turned(g, N) = [g EXCEPT !.nth = k]
      BY <3>1 DEF Turned
    <3>3. [g EXCEPT !.nth = k] = [rule |-> f.rule, nth |-> k, severity |-> f.severity, original |-> f.original,
           layer |-> f.layer, file |-> f.file, line |-> f.line, excerpt |-> f.excerpt, confidence |-> f.confidence]
      BY ONLY <1>2
    <3> QED BY ONLY <3>1, <3>2, <3>3
  <2> QED BY <2>1 DEF IsFinding
<1>6. Base(g) = Base(f)
  BY <1>4 DEF Base
<1> QED BY <1>1, <1>3, <1>4, <1>5, <1>6

LEMMA ReversedIs ==
  ASSUME NEW rules, Ruled(rules), NEW N, N = Len(rules), NEW R, R = Reverse(rules)
  PROVE  /\ N \in Nat /\ DOMAIN rules = 1..N
         /\ Ruled(R) /\ Len(R) = N /\ DOMAIN R = 1..N /\ Reverse(R) = rules
         /\ \A i \in 1..N : N + 1 - i \in 1..N /\ R[N + 1 - i] = rules[i]
         /\ Distinct(rules) => Distinct(R)
<1>1. N \in Nat /\ DOMAIN rules = 1..N /\ rules = [i \in 1..N |-> rules[i]]
  BY DEF Ruled, IsSeq
<1>2. \A i \in 1..N : (N - i) + 1 \in 1..N /\ (N - ((N - i) + 1)) + 1 = i /\ N + 1 - i = (N - i) + 1
  BY <1>1
<1>3. R = [i \in 1..N |-> rules[(N - i) + 1]]
  BY DEF Reverse
<1>4. DOMAIN R = 1..N /\ \A i \in 1..N : R[i] = rules[(N - i) + 1]
  BY <1>3
<1>5. R \in Seq(ToSet(R)) /\ Len(R) = N
  <2>1. R \in [1..N -> ToSet(R)]
    BY <1>3 DEF ToSet
  <2> QED BY <1>1, <2>1
<1>6. \A i \in 1..N : R[(N - i) + 1] = rules[i]
  BY <1>2, <1>4
<1>7. Reverse(R) = rules
  <2>1. Reverse(R) = [i \in 1..N |-> R[(N - i) + 1]]
    BY <1>5 DEF Reverse
  <2> QED BY <1>1, <1>6, <2>1
<1>8. Ruled(R)
  BY <1>1, <1>2, <1>4, <1>5 DEF Ruled, IsSeq
<1>9. Distinct(rules) => Distinct(R)
  <2> SUFFICES ASSUME Distinct(rules), NEW m \in 1..N, NEW n \in 1..N, R[m].id = R[n].id PROVE m = n
    BY <1>4 DEF Distinct
  <2>1. PICK i, j : i = (N - m) + 1 /\ j = (N - n) + 1
    OBVIOUS
  <2>2. i \in DOMAIN rules /\ j \in DOMAIN rules
    BY <1>1, <1>2, <2>1
  <2>3. rules[i].id = rules[j].id
    BY <1>4, <2>1
  <2>4. i = j
    BY <2>2, <2>3 DEF Distinct
  <2> QED BY <1>1, <2>1, <2>4
<1> QED BY <1>1, <1>2, <1>4, <1>5, <1>6, <1>7, <1>8, <1>9

\* Where its rule stands is of no matter to what a rule finds.
LEMMA EvaluateAnywhere ==
  ASSUME NEW r, NEW n, NEW t, NEW f \in Evaluate(r, n, t)
  PROVE  \E m : f = FindingAt(r, n, t, m) /\ \A k : FindingAt(r, k, t, m) \in Evaluate(r, k, t)
BY DEF Evaluate

LEMMA HitsAreTurned ==
  ASSUME NEW rules, Ruled(rules), NEW N, N = Len(rules), NEW R, R = Reverse(rules),
         NEW T, NEW h \in Hits(rules, T)
  PROVE  /\ IsFinding(h) /\ h.nth \in 1..N /\ h.rule = rules[h.nth].id
         /\ Turned(h, N) \in Hits(R, T)
<1>1. PICK n \in DOMAIN rules, t \in T : AppliesTo(rules[n], t) /\ h \in Evaluate(rules[n], n, t)
  BY HitsAre
<1>2. /\ N \in Nat /\ n \in 1..N /\ N + 1 - n \in 1..N /\ DOMAIN R = 1..N /\ R[N + 1 - n] = rules[n]
  BY <1>1, ReversedIs
<1>3. PICK r, k : r = rules[n] /\ k = N + 1 - n
  OBVIOUS
<1>4. PICK m : h = FindingAt(r, n, t, m) /\ FindingAt(r, k, t, m) \in Evaluate(r, k, t)
  BY <1>1, <1>3, EvaluateAnywhere
<1>5. IsFinding(h) /\ h.nth = n /\ h.rule = r.id
  BY <1>4, FindingFields
<1>6. Turned(h, N) = FindingAt(r, k, t, m)
  BY <1>3, <1>4 DEF Turned, FindingAt
<1>7. Turned(h, N) \in Hits(R, T)
  <2>1. k \in DOMAIN R /\ R[k] = r
    BY <1>2, <1>3
  <2> QED BY <1>1, <1>3, <1>4, <1>6, <2>1, HitsAre
<1> QED BY <1>2, <1>3, <1>5, <1>7

LEMMA UnloweredIsTurned ==
  ASSUME NEW rules, Ruled(rules), Distinct(rules), NEW N, N = Len(rules), NEW R, R = Reverse(rules),
         NEW b, NEW h \in Unlowered(rules, b)
  PROVE  IsFinding(h) /\ h.nth \in 1..N /\ Turned(h, N) \in Unlowered(R, b)
<1>1. PICK T : T = Targets(b)
  OBVIOUS
<1>2. h \in Hits(rules, T) /\ \A g \in Hits(rules, T) \ {h} : SameKey(h, g) => Surer(h, g)
  BY <1>1 DEF Unlowered, Dedup
<1>3. N \in Nat /\ Ruled(R) /\ Len(R) = N /\ Reverse(R) = rules /\ DOMAIN rules = 1..N
  BY ReversedIs
<1>4. IsFinding(h) /\ h.nth \in 1..N /\ h.rule = rules[h.nth].id /\ Turned(h, N) \in Hits(R, T)
  BY <1>2, HitsAreTurned
<1>5. ASSUME NEW k \in Hits(R, T) \ {Turned(h, N)}, SameKey(Turned(h, N), k)
      PROVE  Surer(Turned(h, N), k)
  <2>1. IsFinding(k) /\ k.nth \in 1..N /\ Turned(k, N) \in Hits(rules, T)
    BY <1>3, HitsAreTurned
  <2>2. PICK g : g = Turned(k, N)
    OBVIOUS
  <2>3. g \in Hits(rules, T) /\ g.nth \in 1..N /\ g.rule = rules[g.nth].id
    BY <2>1, <2>2, HitsAreTurned
  <2>4. Turned(g, N) = k /\ g.file = k.file /\ g.line = k.line /\ g.rule = k.rule /\ g.confidence = k.confidence
    BY <1>3, <2>1, <2>2, TurnedIs
  <2>5. PICK i : i = Turned(h, N)
    OBVIOUS
  <2>6. i.file = h.file /\ i.line = h.line /\ i.rule = h.rule /\ i.confidence = h.confidence
    BY <1>3, <1>4, <2>5, TurnedIs
  <2>7. SameKey(h, g) /\ g # h
    BY <1>5, <2>4, <2>5, <2>6 DEF SameKey
  <2>8. Surer(h, g)
    BY <1>2, <2>3, <2>7
  <2>9. h.nth = g.nth
    BY <1>3, <1>4, <2>3, <2>7 DEF SameKey, Distinct
  <2>10. h.nth \in Int
    BY <1>4
  <2>11. h.confidence > g.confidence
    BY ONLY <2>8, <2>9, <2>10 DEF Surer
  <2> QED BY <2>4, <2>5, <2>6, <2>11 DEF Surer
<1>6. Turned(h, N) \in Unlowered(R, b)
  BY <1>1, <1>4, <1>5 DEF Unlowered, Dedup
<1> QED BY <1>4, <1>6

LEMMA CapIsTurned ==
  ASSUME NEW caps, NEW h, IsFinding(h), NEW N
  PROVE  ApplyCaps(caps, Turned(h, N)) = Turned(ApplyCaps(caps, h), N)
<1>1. PICK g : g = Turned(h, N)
  OBVIOUS
<1>2. PICK n : n = N + 1 - h.nth
  OBVIOUS
<1>3. g = [rule |-> h.rule, nth |-> n, severity |-> h.severity, original |-> h.original, layer |-> h.layer,
           file |-> h.file, line |-> h.line, excerpt |-> h.excerpt, confidence |-> h.confidence]
  BY <1>1, <1>2 DEF Turned, IsFinding
<1>4. g.file = h.file /\ g.line = h.line /\ g.layer = h.layer /\ g.severity = h.severity
  BY <1>3
<1> DEFINE Of(f) == {cap.max : cap \in {cap \in caps :
                       /\ cap.file = f.file
                       /\ {0, f.line} \cap cap.lines # {}
                       /\ cap.layers = {} \/ f.layer \in cap.layers}}
<1>5. Of(g) = Of(h)
  BY <1>4
<1>6. \A f : ApplyCaps(caps, f) = IF Of(f) = {} \/ f.severity <= Min(Of(f)) THEN f
                                  ELSE [f EXCEPT !.severity = Min(Of(f))]
  BY DEF ApplyCaps
<1> HIDE DEF Of
<1>7. ASSUME NEW s PROVE [g EXCEPT !.severity = s] = Turned([h EXCEPT !.severity = s], N)
  <2>1. [h EXCEPT !.severity = s] =
          [rule |-> h.rule, nth |-> h.nth, severity |-> s, original |-> h.original, layer |-> h.layer,
           file |-> h.file, line |-> h.line, excerpt |-> h.excerpt, confidence |-> h.confidence]
    BY DEF IsFinding
  <2>2. [g EXCEPT !.severity = s] =
          [rule |-> h.rule, nth |-> n, severity |-> s, original |-> h.original, layer |-> h.layer,
           file |-> h.file, line |-> h.line, excerpt |-> h.excerpt, confidence |-> h.confidence]
    BY <1>3
  <2>3. PICK o : o = [h EXCEPT !.severity = s]
    OBVIOUS
  <2>4. N + 1 - o.nth = n
    BY <1>2, <2>1, <2>3
  <2>5. Turned(o, N) = [o EXCEPT !.nth = n]
    BY <2>4 DEF Turned
  <2>6. [o EXCEPT !.nth = n] =
          [rule |-> h.rule, nth |-> n, severity |-> s, original |-> h.original, layer |-> h.layer,
           file |-> h.file, line |-> h.line, excerpt |-> h.excerpt, confidence |-> h.confidence]
    <3>1. o = [rule |-> h.rule, nth |-> h.nth, severity |-> s, original |-> h.original, layer |-> h.layer,
               file |-> h.file, line |-> h.line, excerpt |-> h.excerpt, confidence |-> h.confidence]
      BY ONLY <2>1, <2>3
    <3> QED BY ONLY <3>1
  <2> QED BY ONLY <2>2, <2>3, <2>5, <2>6
<1>8. CASE Of(h) = {} \/ h.severity <= Min(Of(h))
  BY <1>1, <1>4, <1>5, <1>6, <1>8
<1>9. CASE ~(Of(h) = {} \/ h.severity <= Min(Of(h)))
  <2>1. ApplyCaps(caps, h) = [h EXCEPT !.severity = Min(Of(h))]
    BY <1>6, <1>9
  <2>2. ApplyCaps(caps, g) = [g EXCEPT !.severity = Min(Of(h))]
    BY <1>4, <1>5, <1>6, <1>9
  <2> QED BY <1>1, <1>7, <2>1, <2>2
<1> QED BY <1>8, <1>9

LEMMA ScanIsTurned ==
  ASSUME NEW rules, Ruled(rules), Distinct(rules), NEW N, N = Len(rules), NEW b, NEW contexts, NEW policy,
         NEW scan, scan = Scan(b, rules, contexts, policy),
         NEW turned, turned = Scan(b, Reverse(rules), contexts, policy)
  PROVE  /\ turned.findings = {Turned(f, N) : f \in scan.findings}
         /\ turned.waived = {Turned(f, N) : f \in scan.waived}
         /\ \A f \in scan.findings \cup scan.waived : f.nth \in 1..N
<1>1. PICK R : R = Reverse(rules)
  OBVIOUS
<1>2. N \in Nat /\ Ruled(R) /\ Len(R) = N /\ Reverse(R) = rules /\ Distinct(R)
  BY <1>1, ReversedIs
<1>3. PICK U, V : U = Unlowered(rules, b) /\ V = Unlowered(R, b)
  OBVIOUS
<1>4. \A h \in U : IsFinding(h) /\ h.nth \in 1..N /\ Turned(h, N) \in V
  BY <1>1, <1>3, UnloweredIsTurned
<1>5. \A k \in V : IsFinding(k) /\ k.nth \in 1..N /\ Turned(k, N) \in U
  BY <1>2, <1>3, UnloweredIsTurned
<1>6. \A k \in V : \E h \in U : k = Turned(h, N)
  <2> TAKE k \in V
  <2>1. Turned(Turned(k, N), N) = k
    BY <1>2, <1>5, TurnedIs
  <2> QED BY <1>5, <2>1
<1> DEFINE low(h) == Lowered(contexts, b, h)
           out(h) == Out(h, b, policy)
<1>7. \A h \in U : low(Turned(h, N)) = Turned(low(h), N)
  BY <1>4, CapIsTurned DEF Lowered
<1>8. \A h \in U : out(Turned(h, N)) <=> out(h)
  <2> TAKE h \in U
  <2>1. Turned(h, N).rule = h.rule /\ Turned(h, N).file = h.file
    BY <1>2, <1>4, TurnedIs
  <2> QED BY <2>1 DEF Out, Waives
<1>9. /\ scan.findings = {low(h) : h \in {h \in U : ~out(h)}}
      /\ scan.waived = {low(h) : h \in {h \in U : out(h)}}
  BY <1>3, ScanIs
<1>10. /\ turned.findings = {low(h) : h \in {h \in V : ~out(h)}}
       /\ turned.waived = {low(h) : h \in {h \in V : out(h)}}
  BY <1>1, <1>3, ScanIs
<1>11. \A f \in scan.findings \cup scan.waived : f.nth \in 1..N
  <2> TAKE f \in scan.findings \cup scan.waived
  <2>1. PICK h \in U : f = low(h)
    BY <1>9
  <2>2. h \in Hits(rules, Targets(b))
    BY <1>3 DEF Unlowered, Dedup
  <2>3. f.nth = h.nth
    BY <2>1, <2>2, CapIsUndone DEF Lowered
  <2> QED BY <1>4, <2>3
<1> HIDE DEF low, out
<1>12. turned.findings = {Turned(f, N) : f \in scan.findings}
  <2>1. ASSUME NEW f \in scan.findings PROVE Turned(f, N) \in turned.findings
    <3>1. PICK h \in U : ~out(h) /\ f = low(h)
      BY <1>9
    <3>2. Turned(h, N) \in V /\ ~out(Turned(h, N)) /\ Turned(f, N) = low(Turned(h, N))
      BY <1>4, <1>7, <1>8, <3>1
    <3> QED BY <1>10, <3>2
  <2>2. ASSUME NEW g \in turned.findings PROVE \E f \in scan.findings : g = Turned(f, N)
    <3>1. PICK k \in V : ~out(k) /\ g = low(k)
      BY <1>10
    <3>2. PICK h \in U : k = Turned(h, N)
      BY <1>6
    <3>3. ~out(h) /\ g = Turned(low(h), N)
      BY <1>7, <1>8, <3>1, <3>2
    <3> QED BY <1>9, <3>3
  <2> QED BY <2>1, <2>2
<1>13. turned.waived = {Turned(f, N) : f \in scan.waived}
  <2>1. ASSUME NEW f \in scan.waived PROVE Turned(f, N) \in turned.waived
    <3>1. PICK h \in U : out(h) /\ f = low(h)
      BY <1>9
    <3>2. Turned(h, N) \in V /\ out(Turned(h, N)) /\ Turned(f, N) = low(Turned(h, N))
      BY <1>4, <1>7, <1>8, <3>1
    <3> QED BY <1>10, <3>2
  <2>2. ASSUME NEW g \in turned.waived PROVE \E f \in scan.waived : g = Turned(f, N)
    <3>1. PICK k \in V : out(k) /\ g = low(k)
      BY <1>10
    <3>2. PICK h \in U : k = Turned(h, N)
      BY <1>6
    <3>3. out(h) /\ g = Turned(low(h), N)
      BY <1>7, <1>8, <3>1, <3>2
    <3> QED BY <1>9, <3>3
  <2> QED BY <2>1, <2>2
<1> QED BY <1>11, <1>12, <1>13

LEMMA AlertIsTurned ==
  ASSUME NEW N \in Nat, NEW F, NEW W, Listable(F, W), \A f \in F \cup W : f.nth \in 1..N,
         NEW G, G = {Turned(f, N) : f \in F}, NEW X, X = {Turned(f, N) : f \in W}, Listable(G, X),
         NEW f \in F \cup W
  PROVE  AlertIn(G, X, Turned(f, N)) = AlertIn(F, W, f)
<1>1. PICK t : t = [g \in F \cup W |-> Turned(g, N)]
  OBVIOUS
<1>2. ASSUME NEW g \in F \cup W
      PROVE  /\ t[g] = Turned(g, N) /\ Turned(t[g], N) = g /\ Base(t[g]) = Base(g)
             /\ t[g].nth = N + 1 - g.nth /\ t[g].rule = g.rule /\ t[g].severity = g.severity
             /\ t[g].file = g.file /\ t[g].line = g.line
  <2>1. IsFinding(g) /\ g.nth \in 1..N
    BY DEF Listable
  <2> QED BY <1>1, <2>1, TurnedIs
<1>3. \A g \in F \cup W : t[g] \in G \cup X /\ (t[g] \in G <=> g \in F)
  <2>1. \A g \in F : t[g] \in G
    BY <1>2
  <2>2. \A g \in W : t[g] \in X
    BY <1>2
  <2>3. G \cap X = {}
    BY DEF Listable
  <2> QED BY <2>1, <2>2, <2>3
<1>4. \A x \in G \cup X : \E g \in F \cup W : x = t[g]
  BY <1>2
<1>5. ASSUME NEW g \in F \cup W, Base(g) = Base(f) PROVE Precedes(t[g], t[f]) <=> Precedes(g, f)
  <2>1. g.rule = f.rule /\ g.file = f.file
    BY <1>5 DEF Base
  <2>2. /\ f.severity \in Int /\ f.line \in Int /\ f.nth \in Int
    BY DEF Listable, IsOrderly
  <2>3. CASE g.line = f.line
    <3>1. g = f
      BY <2>1, <2>3 DEF Listable, SameKey
    <3>2. ~Precedes(f, f)
      BY ONLY <2>2 DEF Precedes
    <3>3. t[f].nth \in Int /\ t[f].severity \in Int /\ t[f].line \in Int
      BY <1>2, <2>2
    <3>4. ~Precedes(t[f], t[f])
      BY ONLY <3>3 DEF Precedes
    <3> QED BY <3>1, <3>2, <3>4
  <2>4. CASE g.line # f.line
    <3>1. /\ t[g].severity = g.severity /\ t[g].file = g.file /\ t[g].line = g.line
          /\ t[f].severity = f.severity /\ t[f].file = f.file /\ t[f].line = f.line
      BY <1>2
    <3> QED BY ONLY <2>4, <3>1 DEF Precedes
  <2> QED BY <2>3, <2>4
<1>6. ASSUME NEW g \in F \cup W, Base(g) = Base(f) PROVE Leads(G, t[g], t[f]) <=> Leads(F, g, f)
  BY <1>3, <1>5, <1>6 DEF Leads
<1>7. PICK B, C : B = Before(F, W, f) /\ C = Before(G, X, t[f])
  OBVIOUS
<1>8. \A g \in F \cup W : g \in B <=> t[g] \in C
  <2> TAKE g \in F \cup W
  <2>1. Base(t[g]) = Base(g) /\ Base(t[f]) = Base(f) /\ t[g] \in G \cup X
    BY <1>2, <1>3
  <2> QED BY <1>6, <1>7, <2>1 DEF Before
<1>9. B \subseteq F \cup W /\ C \subseteq G \cup X
  BY <1>7 DEF Before
<1>10. PICK p : p = [g \in B |-> t[g]]
  OBVIOUS
<1>11. /\ p \in [B -> C] /\ \A g, h \in B : p[g] = p[h] => g = h
       /\ \A x \in C : \E g \in B : p[g] = x
  <2>1. p \in [B -> C]
    BY <1>8, <1>9, <1>10
  <2>2. ASSUME NEW g \in B, NEW h \in B, p[g] = p[h] PROVE g = h
    BY <1>2, <1>9, <1>10, <2>2
  <2>3. ASSUME NEW x \in C PROVE \E g \in B : p[g] = x
    <3>1. PICK g \in F \cup W : x = t[g]
      BY <1>4, <1>9
    <3> QED BY <1>8, <1>10, <3>1
  <2> QED BY <2>1, <2>2, <2>3
<1>12. IsFiniteSet(B)
  <2>1. IsFiniteSet(F \cup W)
    BY DEF Listable, IsOrderly
  <2> QED BY <1>9, <2>1, FS_Subset
<1>13. Cardinality(B) = Cardinality(C)
  <2>1. p \in Bijection(B, C)
    BY ONLY <1>11 DEF Bijection, Injection, Surjection, IsInjective
  <2> QED BY ONLY <1>12, <2>1, FS_Bijection DEF ExistsBijection
<1>14. t[f].rule = f.rule /\ t[f].file = f.file /\ t[f].line = f.line /\ Base(t[f]) = Base(f) /\ t[f] = Turned(f, N)
  BY <1>2
<1> QED BY <1>7, <1>13, <1>14 DEF AlertIn

-----------------------------------------------------------------------------
(* One log for many bundles.                                                *)

Prefixed(f, prefix) == [f EXCEPT !.file = prefix \o @]

LEMMA PrefixedIs ==
  ASSUME NEW f, IsFinding(f), NEW prefix, NEW g, g = Prefixed(f, prefix)
  PROVE  /\ g.rule = f.rule /\ g.original = f.original /\ g.line = f.line /\ g.file = prefix \o f.file
         /\ Base(g) = <<f.rule, prefix \o f.file, f.excerpt>>
<1>1. g = [rule |-> f.rule, nth |-> f.nth, severity |-> f.severity, original |-> f.original, layer |-> f.layer,
           file |-> prefix \o f.file, line |-> f.line, excerpt |-> f.excerpt, confidence |-> f.confidence]
  BY DEF Prefixed, IsFinding
<1>2. g.rule = f.rule /\ g.original = f.original /\ g.line = f.line /\ g.file = prefix \o f.file /\ g.excerpt = f.excerpt
  BY <1>1
<1> QED BY <1>2 DEF Base

\* Behind one name, paths are told apart by the name and by what follows it.
LEMMA PathsBehindNames ==
  ASSUME NEW x, NEW y, NEW p, IsSeq(p), NEW q, IsSeq(q)
  PROVE  <<x>> \o p = <<y>> \o q <=> x = y /\ p = q
<1>1. PICK T : T = ToSet(p) \cup ToSet(q) \cup {x, y}
  OBVIOUS
<1>2. p \in Seq(T) /\ q \in Seq(T)
  BY <1>1 DEF IsSeq
<1>3. PICK u, v : u = <<x>> /\ v = <<y>>
  OBVIOUS
<1>4. u \in Seq(T) /\ v \in Seq(T) /\ Len(u) = 1 /\ Len(v) = 1 /\ u[1] = x /\ v[1] = y
  BY <1>1, <1>3
<1>5. PICK s, t : s = u \o p /\ t = v \o q
  OBVIOUS
<1>6. Len(s) = 1 + Len(p) /\ s[1] = x /\ \A j \in 1..Len(p) : s[j + 1] = p[j]
  <2>1. /\ Len(u \o p) = Len(u) + Len(p)
        /\ \A i \in 1..Len(u) : (u \o p)[i] = u[i]
        /\ \A j \in 1..Len(p) : (u \o p)[j + Len(u)] = p[j]
    <3>1. u \in Seq(T) /\ p \in Seq(T)
      BY <1>2, <1>4
    <3> QED BY ONLY <3>1, JoinedIs
  <2> QED BY ONLY <1>4, <1>5, <2>1
<1>7. Len(t) = 1 + Len(q) /\ t[1] = y /\ \A j \in 1..Len(q) : t[j + 1] = q[j]
  <2>1. /\ Len(v \o q) = Len(v) + Len(q)
        /\ \A i \in 1..Len(v) : (v \o q)[i] = v[i]
        /\ \A j \in 1..Len(q) : (v \o q)[j + Len(v)] = q[j]
    <3>1. v \in Seq(T) /\ q \in Seq(T)
      BY <1>2, <1>4
    <3> QED BY ONLY <3>1, JoinedIs
  <2> QED BY ONLY <1>4, <1>5, <2>1
<1>8. s = t => x = y /\ p = q
  <2> HAVE s = t
  <2>1. x = y
    BY <1>6, <1>7
  <2>2. Len(p) \in Nat /\ Len(q) \in Nat
    BY <1>2, SeqIs
  <2>3. Len(p) = Len(q)
    BY <1>6, <1>7, <2>2
  <2>4. \A i \in 1..Len(p) : p[i] = q[i]
    BY <1>6, <1>7, <2>3
  <2>5. p = q
    BY ONLY <1>2, <2>3, <2>4, SameSeq
  <2> QED BY <2>1, <2>5
<1>9. x = y /\ p = q => s = t
  BY <1>3, <1>5
<1> QED BY <1>3, <1>5, <1>8, <1>9

LEMMA FlattenThree ==
  ASSUME NEW S, NEW a \in Seq(S), NEW c \in Seq(S), NEW seqs, Len(seqs) = 3,
         seqs[1] = a, seqs[2] = <<>>, seqs[3] = c
  PROVE  FlattenSeq(seqs) = a \o c
<1> DEFINE E(g) == [i \in 1..3 |-> IF i = 1 THEN seqs[i] ELSE g[i - 1] \o seqs[i]]
<1>1. FlattenSeq(seqs) = (CHOOSE g : g = E(g))[3]
  <2>1. ~(Len(seqs) = 0)
    OBVIOUS
  <2> QED BY <2>1 DEF FlattenSeq
<1>2. PICK b : b = a \o <<>>
  OBVIOUS
<1>3. b = a
  BY <1>2, ConcatEmptySeq
<1>4. PICK h : h = [i \in 1..3 |-> IF i = 1 THEN a ELSE IF i = 2 THEN b ELSE b \o c]
  OBVIOUS
<1>5. h[1] = a /\ h[2] = b /\ h[3] = b \o c
  BY <1>4
<1>6. \A i \in 1..3 : h[i] = IF i = 1 THEN seqs[i] ELSE h[i - 1] \o seqs[i]
  <2> TAKE i \in 1..3
  <2>1. CASE i = 1
    BY <1>5, <2>1
  <2>2. CASE i = 2
    BY <1>2, <1>5, <2>2
  <2>3. CASE i = 3
    <3>1. i # 1 /\ i - 1 = 2
      BY <2>3
    <3>2. h[i] = b \o c /\ h[i - 1] = b /\ seqs[i] = c
      BY <1>5, <2>3, <3>1
    <3> QED BY ONLY <3>1, <3>2
  <2> QED BY <2>1, <2>2, <2>3
<1>7. h = E(h)
  BY <1>4, <1>6
<1>8. PICK g : g = CHOOSE x : x = E(x)
  OBVIOUS
<1>9. g = E(g)
  <2> HIDE DEF E
  <2> QED BY <1>7, <1>8
<1>10. \A i \in 1..3 : g[i] = IF i = 1 THEN seqs[i] ELSE g[i - 1] \o seqs[i]
  <2>1. \A i \in 1..3 : g[i] = E(g)[i]
    <3> HIDE DEF E
    <3> QED BY <1>9
  <2> QED BY <2>1
<1>11. g[1] = a
  BY <1>10
<1>12. g[2] = g[1] \o <<>>
  <2>1. 2 \in 1..3 /\ 2 # 1 /\ 2 - 1 = 1
    OBVIOUS
  <2>2. g[2] = g[2 - 1] \o seqs[2]
    BY <1>10, <2>1
  <2> QED BY <2>1, <2>2
<1>13. g[3] = g[2] \o c
  <2>1. 3 \in 1..3 /\ 3 # 1 /\ 3 - 1 = 2
    OBVIOUS
  <2>2. g[3] = g[3 - 1] \o seqs[3]
    BY <1>10, <2>1
  <2> QED BY <2>1, <2>2
<1>14. g[3] = a \o c
  BY <1>2, <1>3, <1>11, <1>12, <1>13
<1> QED BY <1>1, <1>8, <1>14

\* The findings of one log twice, under two names.
Twice(both, all, n, x, y) ==
  /\ n \in Nat /\ DOMAIN both = 1..(n + n)
  /\ \A i \in 1..n : both[i] = Prefixed(all[i], <<x>>) /\ both[i + n] = Prefixed(all[i], <<y>>)

Filed(f) == IsFinding(f) /\ IsSeq(f.file)

LEMMA BasesBehindNames ==
  ASSUME NEW f, Filed(f), NEW g, Filed(g), NEW x, NEW y
  PROVE  Base(Prefixed(f, <<x>>)) = Base(Prefixed(g, <<y>>)) <=> x = y /\ Base(f) = Base(g)
<1>1. /\ Base(Prefixed(f, <<x>>)) = <<f.rule, <<x>> \o f.file, f.excerpt>>
      /\ Base(Prefixed(g, <<y>>)) = <<g.rule, <<y>> \o g.file, g.excerpt>>
  BY PrefixedIs DEF Filed
<1>2. <<x>> \o f.file = <<y>> \o g.file <=> x = y /\ f.file = g.file
  <2>1. IsSeq(f.file) /\ IsSeq(g.file)
    BY DEF Filed
  <2>2. PICK p, q : p = f.file /\ q = g.file
    OBVIOUS
  <2>3. IsSeq(p) /\ IsSeq(q)
    BY <2>1, <2>2
  <2>4. <<x>> \o p = <<y>> \o q <=> x = y /\ p = q
    BY ONLY <2>3, PathsBehindNames
  <2> QED BY <2>2, <2>4
<1>3. PICK p, q : p = <<x>> \o f.file /\ q = <<y>> \o g.file
  OBVIOUS
<1>4. <<f.rule, p, f.excerpt>> = <<g.rule, q, g.excerpt>> <=> f.rule = g.rule /\ p = q /\ f.excerpt = g.excerpt
  OBVIOUS
<1>5. Base(f) = Base(g) <=> f.rule = g.rule /\ f.file = g.file /\ f.excerpt = g.excerpt
  BY DEF Base
<1> QED BY <1>1, <1>2, <1>3, <1>4, <1>5

\* What has one name does not count for what has the other.
LEMMA CountsBehindNames ==
  ASSUME NEW n \in Nat, NEW all, \A i \in 1..n : Filed(all[i]), NEW x, NEW y, x # y,
         NEW both, Twice(both, all, n, x, y), NEW i \in 1..n
  PROVE  /\ fingerprint(both, i) = [base |-> Base(both[i]), nth |-> fingerprint(all, i).nth]
         /\ fingerprint(both, i + n) = [base |-> Base(both[i + n]), nth |-> fingerprint(all, i).nth]
<1>1. \A j \in 1..n : both[j] = Prefixed(all[j], <<x>>) /\ both[j + n] = Prefixed(all[j], <<y>>)
  BY DEF Twice
<1>2. PICK A : A = {j \in 1..(i - 1) : Base(all[j]) = Base(all[i])}
  OBVIOUS
<1>3. fingerprint(all, i).nth = Cardinality(A)
  BY <1>2 DEF fingerprint
<1>4. \A j \in 1..(i - 1) : j \in 1..n
  OBVIOUS
<1>5. {j \in 1..(i - 1) : Base(both[j]) = Base(both[i])} = A
  <2>1. \A j \in 1..(i - 1) : Base(both[j]) = Base(both[i]) <=> Base(all[j]) = Base(all[i])
    BY <1>1, <1>4, BasesBehindNames
  <2> QED BY <1>2, <2>1
<1>6. PICK B : B = {j \in 1..((i + n) - 1) : Base(both[j]) = Base(both[i + n])}
  OBVIOUS
<1>7. \A j \in 1..n : Base(both[j]) # Base(both[i + n])
  BY <1>1, BasesBehindNames
<1>8. \A j \in 1..n : Base(both[j + n]) = Base(both[i + n]) <=> Base(all[j]) = Base(all[i])
  BY <1>1, BasesBehindNames
<1>9. PICK p : p = [j \in A |-> j + n]
  OBVIOUS
<1>10. A \subseteq 1..(i - 1)
  BY <1>2
<1>11. p \in [A -> B]
  <2> SUFFICES ASSUME NEW j \in A PROVE j + n \in B
    BY <1>9
  <2>1. j \in 1..(i - 1) /\ j \in 1..n /\ Base(all[j]) = Base(all[i])
    BY <1>2, <1>4
  <2>2. j + n \in 1..((i + n) - 1)
    BY <2>1
  <2> QED BY <1>6, <1>8, <2>1, <2>2
<1>12. \A j, k \in A : p[j] = p[k] => j = k
  <2> TAKE j, k \in A
  <2>1. j \in Int /\ k \in Int /\ p[j] = j + n /\ p[k] = k + n
    BY <1>9, <1>10
  <2> QED BY <2>1
<1>13. \A k \in B : \E j \in A : p[j] = k
  <2> TAKE k \in B
  <2>1. k \in 1..((i + n) - 1) /\ Base(both[k]) = Base(both[i + n])
    BY <1>6
  <2>2. ~(k \in 1..n)
    BY <1>7, <2>1
  <2>3. PICK j : j = k - n
    OBVIOUS
  <2>4. j \in 1..(i - 1) /\ j + n = k /\ j \in 1..n
    BY <2>1, <2>2, <2>3
  <2>5. Base(both[j + n]) = Base(both[i + n])
    BY <2>1, <2>4
  <2>6. j \in A
    BY <1>2, <1>8, <2>4, <2>5
  <2> QED BY <1>9, <2>4, <2>6
<1>14. IsFiniteSet(A)
  <2>1. 1 \in Int /\ i - 1 \in Int
    OBVIOUS
  <2>2. IsFiniteSet(1..(i - 1))
    BY ONLY <2>1, FS_Interval
  <2> QED BY ONLY <1>10, <2>2, FS_Subset
<1>15. Cardinality(A) = Cardinality(B)
  <2>1. p \in Bijection(A, B)
    BY ONLY <1>11, <1>12, <1>13 DEF Bijection, Injection, Surjection, IsInjective
  <2> QED BY ONLY <1>14, <2>1, FS_Bijection DEF ExistsBijection
<1>16. fingerprint(both, i) = [base |-> Base(both[i]), nth |-> Cardinality(A)]
  BY <1>5 DEF fingerprint
<1>17. fingerprint(both, i + n) = [base |-> Base(both[i + n]), nth |-> Cardinality(B)]
  BY <1>6 DEF fingerprint
<1> QED BY <1>3, <1>15, <1>16, <1>17

\* A finding that comes again, under a prefix.
Repeats(both, j, all, i, prefix) ==
  /\ IsFinding(all[i]) /\ both[j] = Prefixed(all[i], prefix)
  /\ fingerprint(both, j) = [base |-> Base(both[j]), nth |-> fingerprint(all, i).nth]

LEMMA ShiftedIs ==
  ASSUME NEW all, NEW i, NEW prefix, NEW both, NEW j, Repeats(both, j, all, i, prefix), NEW waived, NEW other
  PROVE  Alert(sarifResultFor(both, j, other)) = Shifted(Alert(sarifResultFor(all, i, waived)), prefix)
<1>0. PICK f : /\ f = all[i] /\ IsFinding(f) /\ both[j] = Prefixed(f, prefix)
               /\ fingerprint(both, j) = [base |-> Base(both[j]), nth |-> fingerprint(all, i).nth]
  BY DEF Repeats
<1>1. PICK g : g = both[j]
  OBVIOUS
<1>2. /\ g.rule = f.rule /\ g.line = f.line /\ g.file = prefix \o f.file
      /\ Base(g) = <<f.rule, prefix \o f.file, f.excerpt>>
  <2>1. IsFinding(f) /\ g = Prefixed(f, prefix)
    BY <1>0, <1>1
  <2> QED BY ONLY <2>1, PrefixedIs
<1>3. PICK k : k = fingerprint(all, i).nth
  OBVIOUS
<1>4. fingerprint(all, i) = [base |-> Base(f), nth |-> k]
  <2>1. \E x : fingerprint(all, i) = [base |-> Base(f), nth |-> x]
    BY <1>0 DEF fingerprint
  <2> QED BY <1>3, <2>1
<1>5. Alert(sarifResultFor(all, i, waived)) = <<f.rule, f.file, f.line, [base |-> Base(f), nth |-> k]>>
  BY <1>0, <1>4 DEF Alert, sarifResultFor
<1>6. Alert(sarifResultFor(both, j, other)) =
        <<g.rule, g.file, g.line, [base |-> Base(g), nth |-> k]>>
  BY <1>0, <1>1, <1>3 DEF Alert, sarifResultFor
<1>7. [Base(f) EXCEPT ![2] = prefix \o @] = <<f.rule, prefix \o f.file, f.excerpt>>
  <2>1. PICK r, p, e : r = f.rule /\ p = f.file /\ e = f.excerpt
    OBVIOUS
  <2>2. Base(f) = <<r, p, e>>
    BY <2>1 DEF Base
  <2>3. PICK q : q = prefix \o p
    OBVIOUS
  <2>4. [<<r, p, e>> EXCEPT ![2] = prefix \o @] = <<r, q, e>>
    BY <2>3
  <2> QED BY <2>1, <2>2, <2>3, <2>4
<1>8. PICK o, u : o = Base(f) /\ u = Base(g)
  OBVIOUS
<1>9. [o EXCEPT ![2] = prefix \o @] = u
  BY <1>2, <1>7, <1>8
<1>10. [[base |-> o, nth |-> k] EXCEPT !.base[2] = prefix \o @] = [base |-> u, nth |-> k]
  <2>1. PICK r : r = [base |-> o, nth |-> k]
    OBVIOUS
  <2>2. r.base = o /\ [r EXCEPT !.base = u] = [base |-> u, nth |-> k]
    BY ONLY <2>1
  <2>3. [r.base EXCEPT ![2] = prefix \o @] = u
    BY ONLY <1>9, <2>2
  <2>4. [r EXCEPT !.base[2] = prefix \o @] = [r EXCEPT !.base = u]
    BY ONLY <2>3
  <2> QED BY <2>1, <2>2, <2>4
<1>11. PICK a : a = Alert(sarifResultFor(all, i, waived))
  OBVIOUS
<1>12. a[1] = f.rule /\ a[2] = f.file /\ a[3] = f.line /\ a[4] = [base |-> o, nth |-> k]
  BY <1>5, <1>8, <1>11
<1>13. Shifted(a, prefix) = <<f.rule, prefix \o f.file, f.line, [base |-> u, nth |-> k]>>
  BY <1>10, <1>12 DEF Shifted
<1> QED BY <1>2, <1>6, <1>8, <1>11, <1>13

\* A log of the same scan twice, under two names, and of one bundle that failed.
HasTwo(bundles, scan, x, y) ==
  /\ x # y /\ Len(bundles) = 3 /\ DOMAIN bundles = 1..3
  /\ BundleFindings(bundles[1]) = Entries(Ordered(scan), <<x>>)
  /\ BundleFindings(bundles[2]) = <<>>
  /\ BundleFindings(bundles[3]) = Entries(Ordered(scan), <<y>>)
SaysTwo(many, log, x, y) ==
  /\ many.rules = log.rules /\ Apart(many)
  /\ Alerts(many) = AlertsUnder(log, <<x>>) \cup AlertsUnder(log, <<y>>)

LEMMA ManySay ==
  ASSUME NEW scan, NEW F, NEW W, Gives(scan, F, W),
         NEW x, NEW y, NEW bundles, HasTwo(bundles, scan, x, y)
  PROVE  SaysTwo(MultiSARIF(bundles), SARIF(scan), x, y)
<1>a. F = scan.findings /\ W = scan.waived /\ Listable(F, W)
  BY DEF Gives
<1>b. /\ x # y /\ Len(bundles) = 3 /\ DOMAIN bundles = 1..3
      /\ BundleFindings(bundles[1]) = Entries(Ordered(scan), <<x>>)
      /\ BundleFindings(bundles[2]) = <<>>
      /\ BundleFindings(bundles[3]) = Entries(Ordered(scan), <<y>>)
  BY DEF HasTwo
<1>c. PICK many, log : many = MultiSARIF(bundles) /\ log = SARIF(scan)
  OBVIOUS
<1>d. log.rules = Described(Says(F \cup W)) /\ Alerts(log) = AlertsIn(F, W)
  BY <1>c, LogSays
<1>1. PICK all : Logged(all, F, W)
  BY <1>a, BothAreLogged
<1>2. PICK n : n = Len(all)
  OBVIOUS
<1>3. InOrder(all, F, W) /\ n \in Nat /\ DOMAIN all = 1..n
  BY <1>1, <1>2 DEF Logged, InOrder
<1>4. \A i \in 1..n : all[i] \in F \cup W /\ Filed(all[i])
  <2>1. \A f \in F \cup W : Filed(f)
    BY <1>a, PathsAreOrdered DEF Filed, Listable, IsOrderly
  <2> QED BY <1>2, <1>3, <2>1 DEF InOrder
<1>5. PICK k : k = Len(sortFindings(F))
  OBVIOUS
<1>6. all = Ordered(scan).findings \o Ordered(scan).waived /\ Ordered(scan).findings = sortFindings(F)
  BY <1>1, <1>a DEF Logged, Ordered
<1> DEFINE Entry(i, prefix) == [bundle |-> prefix, waived |-> i > k, finding |-> Prefixed(all[i], prefix)]
<1>7. \A prefix : Entries(Ordered(scan), prefix) = [i \in 1..n |-> Entry(i, prefix)]
  BY <1>3, <1>5, <1>6 DEF Entries, Prefixed
<1>8. PICK d, e : d = [i \in 1..n |-> Entry(i, <<x>>)] /\ e = [i \in 1..n |-> Entry(i, <<y>>)]
  OBVIOUS
<1>9. \A i \in 1..n : d[i].finding = Prefixed(all[i], <<x>>) /\ e[i].finding = Prefixed(all[i], <<y>>)
  BY <1>8
<1>10. PICK S : S = {Entry(i, <<x>>) : i \in 1..n} \cup {Entry(i, <<y>>) : i \in 1..n}
  OBVIOUS
<1> HIDE DEF Entry
<1>11. d \in Seq(S) /\ e \in Seq(S) /\ Len(d) = n /\ Len(e) = n
  <2>1. d \in [1..n -> S] /\ e \in [1..n -> S]
    BY <1>8, <1>10
  <2> QED BY ONLY <1>3, <2>1
<1>12. PICK entries : entries = d \o e
  OBVIOUS
<1>13. /\ DOMAIN entries = 1..(n + n)
       /\ \A i \in 1..n : entries[i] = d[i] /\ entries[i + n] = e[i]
  <2>1. /\ d \o e \in Seq(S) /\ Len(d \o e) = Len(d) + Len(e)
        /\ \A i \in 1..Len(d) : (d \o e)[i] = d[i]
        /\ \A j \in 1..Len(e) : (d \o e)[j + Len(d)] = e[j]
    <3>1. d \in Seq(S) /\ e \in Seq(S)
      BY <1>11
    <3> QED BY ONLY <3>1, JoinedIs
  <2>2. DOMAIN entries = 1..Len(entries)
    BY ONLY <1>12, <2>1, SeqIs
  <2> QED BY ONLY <1>11, <1>12, <2>1, <2>2
<1>14. PICK both : both = [i \in DOMAIN entries |-> entries[i].finding]
  OBVIOUS
<1>15. Twice(both, all, n, x, y)
  <2>1. \A i \in 1..n : i \in 1..(n + n) /\ i + n \in 1..(n + n)
    BY <1>3
  <2>2. \A i \in 1..n : both[i] = entries[i].finding /\ both[i + n] = entries[i + n].finding
    BY <1>13, <1>14, <2>1
  <2> QED BY <1>3, <1>9, <1>13, <1>14, <2>2 DEF Twice
<1>16. many = logOfMany(bundles, entries, both)
  <2>1. PICK seqs : seqs = [i \in DOMAIN bundles |-> BundleFindings(bundles[i])]
    OBVIOUS
  <2>2. Len(seqs) = 3 /\ seqs[1] = d /\ seqs[2] = <<>> /\ seqs[3] = e
    <3>1. seqs = [i \in 1..3 |-> BundleFindings(bundles[i])]
      BY <1>b, <2>1
    <3>2. BundleFindings(bundles[1]) = d /\ BundleFindings(bundles[3]) = e
      BY <1>7, <1>8, <1>b
    <3>3. Len(seqs) = 3
      <4>1. seqs \in [1..3 -> {BundleFindings(bundles[i]) : i \in 1..3}]
        BY <3>1
      <4> QED BY ONLY <4>1
    <3> QED BY <1>b, <3>1, <3>2, <3>3
  <2>3. FlattenSeq(seqs) = entries
    BY <1>11, <1>12, <2>2, FlattenThree
  <2> QED BY <1>14, <1>c, <2>1, <2>3 DEF MultiSARIF
<1>17. PICK g : g = [i \in 1..(n + n) |-> sarifResultFor(both, i, entries[i].waived)]
  OBVIOUS
<1>18. many.rules = sarifRules(both) /\ many.results = [i \in 1..(n + n) |-> g[i]]
  <2>1. many.rules = sarifRules(both) /\ many.results = [i \in DOMAIN both |-> sarifResultFor(both, i, entries[i].waived)]
    BY <1>16 DEF logOfMany
  <2>2. DOMAIN both = 1..(n + n)
    BY <1>15 DEF Twice
  <2> QED BY <1>17, <2>1, <2>2
<1>19. Apart(many)
  <2>1. n + n \in Nat
    BY <1>3
  <2>2. \A i \in 1..(n + n) : g[i].fingerprint = fingerprint(both, i)
    BY <1>17 DEF sarifResultFor
  <2>3. Numbered(many, both, n + n)
    BY <1>18, <2>1, <2>2 DEF Numbered
  <2> QED BY ONLY <2>3, ResultsAreApart
<1>20. \A i \in 1..n : /\ both[i] = Prefixed(all[i], <<x>>) /\ both[i + n] = Prefixed(all[i], <<y>>)
                       /\ i \in 1..(n + n) /\ i + n \in 1..(n + n)
  <2>1. \A i \in 1..n : i \in 1..(n + n) /\ i + n \in 1..(n + n)
    BY <1>3
  <2>2. \A i \in 1..n : both[i] = Prefixed(all[i], <<x>>) /\ both[i + n] = Prefixed(all[i], <<y>>)
    BY ONLY <1>15 DEF Twice
  <2> QED BY ONLY <2>1, <2>2
<1>21. \A j \in 1..(n + n) : j \in 1..n \/ \E i \in 1..n : j = i + n
  <2> TAKE j \in 1..(n + n)
  <2>1. j \in 1..n \/ (j - n \in 1..n /\ j = (j - n) + n)
    BY <1>3
  <2> QED BY <2>1
<1>22. many.rules = log.rules
  <2>1. log.rules = Described(Says(F \cup W))
    BY <1>d
  <2>2. Says(F \cup W) = {<<all[i].rule, all[i].original>> : i \in DOMAIN all}
    BY <1>3, SaysIs
  <2>3. PICK P : P = {<<both[i].rule, both[i].original>> : i \in DOMAIN both}
    OBVIOUS
  <2>4. sarifRules(both) = Described(P)
    BY <2>3, RulesAre
  <2>5. \A i \in 1..n : /\ both[i].rule = all[i].rule /\ both[i].original = all[i].original
                        /\ both[i + n].rule = all[i].rule /\ both[i + n].original = all[i].original
    <3> TAKE i \in 1..n
    <3>1. IsFinding(all[i])
      BY <1>4 DEF Filed
    <3>2. PICK f, o, h, p, q : f = all[i] /\ o = both[i] /\ h = both[i + n] /\ p = <<x>> /\ q = <<y>>
      OBVIOUS
    <3>3. IsFinding(f) /\ o = Prefixed(f, p) /\ h = Prefixed(f, q)
      BY <1>20, <3>1, <3>2
    <3>4. o.rule = f.rule /\ o.original = f.original
      BY ONLY <3>3, PrefixedIs
    <3>5. h.rule = f.rule /\ h.original = f.original
      BY ONLY <3>3, PrefixedIs
    <3> QED BY <3>2, <3>4, <3>5
  <2>6. DOMAIN both = 1..(n + n)
    BY <1>15 DEF Twice
  <2>7. P \subseteq Says(F \cup W)
    <3> SUFFICES ASSUME NEW j \in 1..(n + n) PROVE <<both[j].rule, both[j].original>> \in Says(F \cup W)
      BY <2>3, <2>6
    <3>1. PICK i \in 1..n : both[j].rule = all[i].rule /\ both[j].original = all[i].original
      BY <1>21, <2>5
    <3> QED BY <1>3, <2>2, <3>1
  <2>8. Says(F \cup W) \subseteq P
    <3> SUFFICES ASSUME NEW i \in 1..n PROVE <<all[i].rule, all[i].original>> \in P
      BY <1>3, <2>2
    <3> QED BY <1>20, <2>3, <2>5, <2>6
  <2>9. P = Says(F \cup W)
    BY <2>7, <2>8
  <2> QED BY <1>18, <2>1, <2>4, <2>9
<1>23. \A i \in 1..n : /\ fingerprint(both, i) = [base |-> Base(both[i]), nth |-> fingerprint(all, i).nth]
                       /\ fingerprint(both, i + n) = [base |-> Base(both[i + n]), nth |-> fingerprint(all, i).nth]
  <2>1. n \in Nat /\ (\A i \in 1..n : Filed(all[i])) /\ x # y
    BY <1>3, <1>4, <1>b
  <2> QED BY ONLY <1>15, <2>1, CountsBehindNames
<1>e. PICK no : no = FALSE
  OBVIOUS
<1> DEFINE old(i) == Alert(sarifResultFor(all, i, no))
<1>24. \A i \in 1..n : Alert(g[i]) = Shifted(old(i), <<x>>) /\ Alert(g[i + n]) = Shifted(old(i), <<y>>)
  <2> TAKE i \in 1..n
  <2>1. IsFinding(all[i])
    BY <1>4 DEF Filed
  <2>2. Alert(sarifResultFor(both, i, entries[i].waived)) = Shifted(old(i), <<x>>)
    <3>1. Repeats(both, i, all, i, <<x>>)
      BY <1>20, <1>23, <2>1 DEF Repeats
    <3> QED BY ONLY <3>1, ShiftedIs
  <2>3. Alert(sarifResultFor(both, i + n, entries[i + n].waived)) = Shifted(old(i), <<y>>)
    <3>1. Repeats(both, i + n, all, i, <<y>>)
      BY <1>20, <1>23, <2>1 DEF Repeats
    <3> QED BY ONLY <3>1, ShiftedIs
  <2> QED BY <1>17, <1>20, <2>2, <2>3
<1>25. Alerts(log) = {old(i) : i \in 1..n}
  <2>1. Alerts(log) = {AlertIn(F, W, f) : f \in F \cup W}
    BY <1>d DEF AlertsIn
  <2>2. \A i \in 1..n : old(i) = AlertIn(F, W, all[i])
    BY <1>2, <1>3, AlertsAre
  <2>3. \A f \in F \cup W : \E i \in 1..n : all[i] = f
    BY <1>2, <1>3 DEF InOrder
  <2> HIDE DEF old
  <2> QED BY <1>4, <2>1, <2>2, <2>3
<1>26. Alerts(many) = {Alert(g[j]) : j \in 1..(n + n)}
  <2>1. PICK r : r = many.results
    OBVIOUS
  <2>2. DOMAIN r = 1..(n + n) /\ \A j \in 1..(n + n) : r[j] = g[j]
    BY <1>18, <2>1
  <2>3. Alerts(many) = {Alert(r[j]) : j \in DOMAIN r}
    BY <2>1 DEF Alerts
  <2> QED BY <2>2, <2>3
<1> HIDE DEF old
<1>27. Alerts(many) = AlertsUnder(log, <<x>>) \cup AlertsUnder(log, <<y>>)
  <2>1. PICK O : O = {old(i) : i \in 1..n}
    OBVIOUS
  <2>2. PICK M : M = {Shifted(a, <<x>>) : a \in O} \cup {Shifted(a, <<y>>) : a \in O}
    OBVIOUS
  <2>3. ASSUME NEW j \in 1..(n + n) PROVE Alert(g[j]) \in M
    <3>1. CASE j \in 1..n
      BY <1>24, <2>1, <2>2, <3>1
    <3>2. CASE \E i \in 1..n : j = i + n
      BY <1>24, <2>1, <2>2, <3>2
    <3> QED BY <1>21, <3>1, <3>2
  <2>4. ASSUME NEW m \in M PROVE \E j \in 1..(n + n) : m = Alert(g[j])
    <3>1. PICK i \in 1..n : m = Shifted(old(i), <<x>>) \/ m = Shifted(old(i), <<y>>)
      BY <2>1, <2>2
    <3>2. m = Alert(g[i]) \/ m = Alert(g[i + n])
      BY <1>24, <3>1
    <3> QED BY <1>20, <3>2
  <2>5. Alerts(many) = M
    BY <1>26, <2>3, <2>4
  <2> QED BY <1>25, <2>1, <2>2, <2>5 DEF AlertsUnder
<1> QED BY <1>19, <1>22, <1>27, <1>c DEF SaysTwo

-----------------------------------------------------------------------------
(* Logs agree.                                                              *)

PathsKnown == Files(dir) \subseteq ToSet(PathOrder)

LEMMA PathsKnownInit == Init => PathsKnown
BY PathsAreOrdered DEF Init, PathsKnown

LEMMA PathsKnownStep == PathsKnown /\ [Next]_vars => PathsKnown'
<1> SUFFICES ASSUME PathsKnown, [Next]_vars PROVE Files(dir') \subseteq ToSet(PathOrder)
  BY DEF PathsKnown
<1>0. \A u, v : DOMAIN u \subseteq DOMAIN v => Files(u) \subseteq Files(v)
  BY DEF Files, Walked
<1>1. ASSUME NEW emit \in BOOLEAN, Sign(emit) PROVE Files(dir') = Files(dir)
  BY <1>1, SigningKeepsFiles
<1>2. ASSUME NEW p, NEW i, NEW line, InsertLine(p, i, line) PROVE DOMAIN dir' = DOMAIN dir
  BY <1>2 DEF InsertLine, Rewrite
<1>3. ASSUME NEW p, NEW i, DeleteLine(p, i) PROVE DOMAIN dir' = DOMAIN dir
  BY <1>3 DEF DeleteLine, Rewrite
<1>4. ASSUME NEW a \in Additions, AddFile(a) PROVE Files(dir') \subseteq ToSet(PathOrder)
  <2>1. DOMAIN dir' = {a.path} \cup DOMAIN dir
    BY <1>4 DEF AddFile, Over
  <2>2. Files(dir') \subseteq {a.path} \cup Files(dir)
    BY <2>1 DEF Files, Walked
  <2> QED BY <2>2, PathsAreOrdered DEF PathsKnown
<1>5. ASSUME NEW p, RemoveFile(p) PROVE DOMAIN dir' \subseteq DOMAIN dir
  BY <1>5 DEF RemoveFile
<1>6. CASE Next
  BY <1>0, <1>1, <1>2, <1>3, <1>4, <1>5, <1>6 DEF Next, Step, PathsKnown
<1>7. CASE UNCHANGED vars
  BY <1>7 DEF vars, PathsKnown
<1> QED BY <1>6, <1>7

LEMMA LogsAgree ==
  ASSUME TextsOK, RulesetOK, PathsKnown, Loads(dir),
         NEW scan, scan = Scan(Loaded, Rules, Contexts, Policy), NEW log, log = SARIF(scan)
  PROVE  /\ Apart(log)
         /\ log.rules = SARIF(Scan(Loaded, Rules, {}, [Policy EXCEPT !.waivers = {}])).rules
         /\ Distinct(Rules) => Alerts(SARIF(Scan(Loaded, Reverse(Rules), Contexts, Policy))) = Alerts(log)
         /\ \E x, y : x = "a" /\ y = "c" /\ SaysTwo(LogOfTwo(scan), log, x, y)
<1>1. PICK b, rules, contexts : b = LoadBundle(dir) /\ rules = Rules /\ contexts = Contexts
  OBVIOUS
<1>2. Readable(dir)
  BY DEF Readable, TextsOK, PathsKnown, Loads
<1>3. Ruled(rules) /\ \A c \in contexts : IsContext(c)
  BY <1>1 DEF Ruled, RulesetOK, Rules, Contexts
<1>4. scan = Scan(b, rules, contexts, Policy)
  BY <1>1 DEF Loaded
<1>5. PICK F, W : F = scan.findings /\ W = scan.waived
  OBVIOUS
<1>6. Listable(F, W) /\ Says(F \cup W) = Says(Unlowered(rules, b))
  <2>1. IsScan(scan, dir, rules, contexts, Policy)
    BY <1>1, <1>2, <1>3, <1>4 DEF IsScan
  <2>2. /\ Listable(scan.findings, scan.waived)
        /\ Says(scan.findings \cup scan.waived) = Says(Unlowered(rules, LoadBundle(dir)))
    BY ONLY <2>1, ScanIsListable
  <2> QED BY <1>1, <1>5, <2>2
<1>a. Gives(scan, F, W)
  BY <1>5, <1>6 DEF Gives
<1>7. /\ log.rules = Described(Says(F \cup W))
      /\ Alerts(log) = {AlertIn(F, W, f) : f \in F \cup W}
      /\ Apart(log)
  BY <1>a, LogSays DEF AlertsIn
<1>8. log.rules = SARIF(Scan(b, rules, {}, [Policy EXCEPT !.waivers = {}])).rules
  <2>1. PICK bare, policy : policy = [Policy EXCEPT !.waivers = {}] /\ bare = Scan(b, rules, {}, policy)
    OBVIOUS
  <2>2. PICK none : none = {}
    OBVIOUS
  <2>3. /\ Listable(bare.findings, bare.waived)
        /\ Says(bare.findings \cup bare.waived) = Says(Unlowered(rules, b))
    <3>1. IsScan(bare, dir, rules, none, policy)
      BY <1>1, <1>2, <1>3, <2>1, <2>2 DEF IsScan
    <3>2. /\ Listable(bare.findings, bare.waived)
          /\ Says(bare.findings \cup bare.waived) = Says(Unlowered(rules, LoadBundle(dir)))
      BY ONLY <3>1, ScanIsListable
    <3> QED BY <1>1, <3>2
  <2>4. SARIF(bare).rules = Described(Says(bare.findings \cup bare.waived))
    <3>1. Gives(bare, bare.findings, bare.waived)
      BY <2>3 DEF Gives
    <3> QED BY ONLY <3>1, LogSays
  <2> QED BY <1>6, <1>7, <2>1, <2>3, <2>4
<1>9. Distinct(rules) => Alerts(SARIF(Scan(b, Reverse(rules), contexts, Policy))) = Alerts(log)
  <2> HAVE Distinct(rules)
  <2>1. PICK N, R, turned : N = Len(rules) /\ R = Reverse(rules) /\ turned = Scan(b, R, contexts, Policy)
    OBVIOUS
  <2>2. N \in Nat /\ Ruled(R)
    BY <1>3, <2>1, ReversedIs
  <2>3. PICK G, X : G = turned.findings /\ X = turned.waived
    OBVIOUS
  <2>4. Listable(G, X)
    <3>1. IsScan(turned, dir, R, contexts, Policy)
      BY <1>1, <1>2, <1>3, <2>1, <2>2 DEF IsScan
    <3>2. Listable(turned.findings, turned.waived)
      BY ONLY <3>1, ScanIsListable
    <3> QED BY <2>3, <3>2
  <2>5. /\ G = {Turned(f, N) : f \in F} /\ X = {Turned(f, N) : f \in W}
        /\ \A f \in F \cup W : f.nth \in 1..N
    BY <1>3, <1>4, <1>5, <2>1, <2>3, ScanIsTurned
  <2>6. \A f \in F \cup W : AlertIn(G, X, Turned(f, N)) = AlertIn(F, W, f)
    BY <1>6, <2>2, <2>4, <2>5, AlertIsTurned
  <2>7. Alerts(SARIF(turned)) = {AlertIn(G, X, g) : g \in G \cup X}
    <3>1. Gives(turned, G, X)
      BY <2>3, <2>4 DEF Gives
    <3>2. Alerts(SARIF(turned)) = AlertsIn(G, X)
      BY ONLY <3>1, LogSays
    <3> QED BY <3>2 DEF AlertsIn
  <2>8. G \cup X = {Turned(f, N) : f \in F \cup W}
    BY <2>5
  <2>9. {AlertIn(G, X, g) : g \in G \cup X} = {AlertIn(F, W, f) : f \in F \cup W}
    BY <2>6, <2>8
  <2> QED BY <1>7, <2>1, <2>7, <2>9
<1>10. PICK x, y, z, note : x = "a" /\ y = "c" /\ z = "b" /\ note = "note.md" /\ x # y
  OBVIOUS
<1>11. PICK bundles : bundles = << [dir |-> <<x>>, single |-> FALSE, scan |-> {scan}],
                                   [dir |-> <<z>>, single |-> FALSE, scan |-> {}],
                                   [dir |-> <<y, note>>, single |-> TRUE, scan |-> {scan}] >>
  OBVIOUS
<1>12. /\ Len(bundles) = 3 /\ DOMAIN bundles = 1..3
       /\ bundles[1].dir = <<x>> /\ bundles[1].single = FALSE /\ bundles[1].scan = {scan}
       /\ bundles[2].scan = {}
       /\ bundles[3].dir = <<y, note>> /\ bundles[3].single = TRUE /\ bundles[3].scan = {scan}
  BY <1>11
<1>13. (CHOOSE s \in {scan} : TRUE) = scan /\ {scan} # {}
  OBVIOUS
<1>14. Front(<<y, note>>) = <<y>>
  <2>1. PICK u, v : u = <<y, note>> /\ v = SubSeq(u, 1, 1)
    OBVIOUS
  <2>2. u \in Seq({y, note}) /\ Len(u) = 2 /\ u[1] = y
    BY <2>1
  <2>3. v \in Seq({y, note}) /\ Len(v) = 1 /\ v[1] = u[1]
    BY <2>1, <2>2, SubSeqProperties
  <2>4. v = <<y>>
    BY <2>2, <2>3
  <2>5. Front(u) = v
    <3>1. Len(u) - 1 = 1
      BY <2>2
    <3> QED BY <2>1, <3>1 DEF Front
  <2> QED BY <2>1, <2>4, <2>5
<1>15. /\ BundleFindings(bundles[1]) = Entries(Ordered(scan), <<x>>)
       /\ BundleFindings(bundles[2]) = <<>>
       /\ BundleFindings(bundles[3]) = Entries(Ordered(scan), <<y>>)
  BY <1>12, <1>13, <1>14 DEF BundleFindings, bundlePrefix
<1>16. HasTwo(bundles, scan, x, y)
  BY <1>10, <1>12, <1>15 DEF HasTwo
<1>17. SaysTwo(MultiSARIF(bundles), SARIF(scan), x, y)
  BY ONLY <1>a, <1>16, ManySay
<1>18. LogOfTwo(scan) = MultiSARIF(bundles)
  BY <1>10, <1>11 DEF LogOfTwo
<1>19. SaysTwo(LogOfTwo(scan), log, x, y)
  BY <1>17, <1>18
<1> QED BY <1>1, <1>7, <1>8, <1>9, <1>10, <1>19 DEF Loaded

\* When no two rules share an id, logs are stable (sarif.go:270-348, 412-421, 577-597):
\* no two results are one alert, how rules are described depends neither on context
\* rules nor on waivers, the order of the rules changes no alert, and a log of many
\* bundles holds the alerts of each under its prefix. Where two rules share an id,
\* which no pack is refused for, the first of them is the one that is reported.
THEOREM LogsStay == Spec => [](Distinct(Rules) => LogsAreStable)
<1>1. ASSUME TextsOK, RulesetOK, PathsKnown, Distinct(Rules) PROVE LogsAreStable
  <2> SUFFICES ASSUME Loads(dir),
                      NEW scan, scan = Scan(Loaded, Rules, Contexts, Policy),
                      NEW log, log = SARIF(scan), NEW many, many = LogOfTwo(scan)
               PROVE  /\ Apart(log) /\ Apart(many)
                      /\ log.rules = SARIF(Scan(Loaded, Rules, {}, [Policy EXCEPT !.waivers = {}])).rules
                      /\ many.rules = log.rules
                      /\ Alerts(SARIF(Scan(Loaded, Reverse(Rules), Contexts, Policy))) = Alerts(log)
                      /\ Alerts(many) = AlertsUnder(log, <<"a">>) \cup AlertsUnder(log, <<"c">>)
    BY DEF LogsAreStable
  <2>1. /\ Apart(log)
        /\ log.rules = SARIF(Scan(Loaded, Rules, {}, [Policy EXCEPT !.waivers = {}])).rules
        /\ Alerts(SARIF(Scan(Loaded, Reverse(Rules), Contexts, Policy))) = Alerts(log)
    BY <1>1, LogsAgree
  <2>2. PICK x, y : x = "a" /\ y = "c" /\ SaysTwo(many, log, x, y)
    BY <1>1, LogsAgree
  <2>3. /\ many.rules = log.rules /\ Apart(many)
        /\ Alerts(many) = AlertsUnder(log, <<x>>) \cup AlertsUnder(log, <<y>>)
    BY <2>2 DEF SaysTwo
  <2> QED BY <2>1, <2>2, <2>3
<1>2. Init => TextsOK /\ RulesetOK /\ PathsKnown
  BY TextsInit, RulesetInit, PathsKnownInit
<1>3. (TextsOK /\ RulesetOK /\ PathsKnown) /\ [Next]_vars => (TextsOK /\ RulesetOK /\ PathsKnown)'
  BY TextsStep, RulesetStep, PathsKnownStep
<1>4. TextsOK /\ RulesetOK /\ PathsKnown => (Distinct(Rules) => LogsAreStable)
  BY <1>1
<1> QED BY <1>2, <1>3, <1>4, PTL DEF Spec
=============================================================================
