------------------------------- MODULE Packs --------------------------------
(***************************************************************************)
(* Rule packs (pkg/rules/loader.go): what a pack file may say, and what is *)
(* made of it. A pack is refused as a whole, with a reason, when one of    *)
(* its rules says something that would not be heard.                       *)
(*                                                                         *)
(* A pack is [name, apiVersion, rules]; a rule as it is written is         *)
(*   id, kind, scope, severity    strings, empty when left out             *)
(*   effect       at most one [max, layers]                                *)
(*   paths        the directories its path patterns select                 *)
(*   patternsOk   the regexes of paths and suppress compile                *)
(*   confidence   in hundredths, 0 when left out                           *)
(*   layer, languages, targets, suppress    as in Scan                     *)
(*   match        a condition: [any, all, not, mark, confidence, ok], of   *)
(*                which the first three are sequences of conditions, mark  *)
(*                at most one pattern, and ok whether it compiles          *)
(***************************************************************************)
EXTENDS Scan

CONSTANT CondLevels   \* conditions; what is in a condition is on lower levels

APIVersion == "surfaceguard.svgreg.net/rulepack.v1"

ParseSeverity ==
  [info |-> Info, low |-> Low, medium |-> Medium, high |-> High, critical |-> Critical]

-----------------------------------------------------------------------------
\* A condition is compiled to a tree of Scan; the first shape it has counts.
Nothing == [any |-> <<>>, all |-> <<>>, not |-> <<>>, mark |-> {}, confidence |-> 0, ok |-> TRUE]

\* isEmptyCond: it declares nothing; a confidence alone is nothing.
IsEmptyCond(cd) == cd.any = <<>> /\ cd.all = <<>> /\ cd.not = <<>> /\ cd.mark = {}

Branches(cd) == ToSet(cd.any) \cup ToSet(cd.all) \cup ToSet(cd.not)

Conditions == UNION {CondLevels[n] : n \in DOMAIN CondLevels}

ASSUME ConditionsAreFinite ==
  /\ DOMAIN CondLevels \subseteq Nat
  /\ \A n \in DOMAIN CondLevels : \A cd \in CondLevels[n] :
       \A sub \in Branches(cd) : \E m \in DOMAIN CondLevels : m < n /\ sub \in CondLevels[m]

Compiles(cd) ==
  LET compiles[c \in Conditions] == c.ok /\ \A sub \in Branches(c) : compiles[sub]
  IN compiles[cd]

compileCond(cd) ==
  LET tree[c \in Conditions] ==
        LET All(of) == [i \in DOMAIN of |-> tree[of[i]]]
        IN IF c.any # <<>> THEN Tree("any", All(c.any))
           ELSE IF c.all # <<>> THEN Tree("all", All(c.all))
           ELSE IF c.not # <<>> THEN Tree("not", All(c.not))
           ELSE IF c.mark # {} THEN Leaf(CHOOSE m \in c.mark : TRUE, c.confidence, FALSE)
           ELSE PathOnly
  IN tree[cd]

ASSUME TreesOfConditions == \A cd \in Conditions : compileCond(cd) \in Trees

-----------------------------------------------------------------------------
ScopeOf(rd) == IF rd.scope = "" THEN "line" ELSE rd.scope

\* Mutant: a rule for sections of any target.
SectionFitsAll(rd) == TRUE

\* A section is a heading's: only markdown has them.
SectionFits(rd) == ScopeOf(rd) = "section" => rd.targets \subseteq {"body", "refs", "manifest"}

\* Without a match a rule caps by place alone, which only a whole file has.
MayOmitMatch(rd) == rd.paths # {} /\ ScopeOf(rd) = "file"

\* compileContext: the context rule, or nothing.
compileContext(rd) ==
  {[scope |-> ScopeOf(rd), targets |-> rd.targets, languages |-> rd.languages,
    match |-> compileCond(rd.match), paths |-> rd.paths,
    max |-> ParseSeverity[e.max], layers |-> e.layers] :
     e \in {e \in rd.effect :
              /\ rd.id # ""
              /\ e.max \in DOMAIN ParseSeverity
              /\ e.layers \subseteq {"content", "code", "provenance", "drift"}
              /\ ScopeOf(rd) \in {"line", "file", "section"} /\ SectionFits(rd)
              /\ rd.severity = "" /\ rd.confidence = 0 /\ rd.suppress = {}
              /\ IsEmptyCond(rd.match) => MayOmitMatch(rd)
              /\ rd.patternsOk /\ Compiles(rd.match)}}

\* compileRule: the detection, or nothing.
compileRule(rd) ==
  IF rd.severity \in DOMAIN ParseSeverity /\ rd.patternsOk /\ Compiles(rd.match)
  THEN {[id |-> rd.id, layer |-> rd.layer, severity |-> ParseSeverity[rd.severity],
         confidence |-> rd.confidence, targets |-> rd.targets, languages |-> rd.languages,
         match |-> compileCond(rd.match), suppress |-> rd.suppress]}
  ELSE {}

IsDetection(rd) == rd.kind \in {"", "detection"}

\* Mutant: what is meant to lower a severity is ignored on a detection.
CompiledHeedless(rd) ==
  IF IsDetection(rd) THEN compileRule(rd)
  ELSE IF rd.kind = "context" THEN compileContext(rd) ELSE {}

\* What a written rule becomes: one rule, or nothing when it is refused.
Compiled(rd) ==
  IF IsDetection(rd)
  THEN IF rd.effect # {} \/ rd.scope # "" \/ rd.paths # {} THEN {} ELSE compileRule(rd)
  ELSE IF rd.kind = "context" THEN compileContext(rd) ELSE {}

Made(written) == [i \in DOMAIN written |-> CHOOSE r \in Compiled(written[i]) : TRUE]

\* LoadPack: the rules and context rules of a pack that is accepted whole.
LoadPack(pack) ==
  IF pack.name = "" \/ pack.apiVersion # APIVersion \/ \E rd \in ToSet(pack.rules) : Compiled(rd) = {}
  THEN {}
  ELSE LET detections == {i \in DOMAIN pack.rules : IsDetection(pack.rules[i])}
       IN {[rules |-> Made(KeepAt(pack.rules, detections)),
            contexts |-> ToSet(Made(KeepAt(pack.rules, DOMAIN pack.rules \ detections)))]}

\* loadRuleset: the built-in packs, then those that are named; all or none.
loadRuleset(builtin, extra) ==
  LET packs == [i \in DOMAIN extra |-> LoadPack(extra[i])]
      all == builtin \o [i \in DOMAIN packs |-> CHOOSE p \in packs[i] : TRUE]
  IN IF \E i \in DOMAIN packs : packs[i] = {} THEN {}
     ELSE {[rules |-> FlattenSeq([i \in DOMAIN all |-> all[i].rules]),
            contexts |-> UNION {all[i].contexts : i \in DOMAIN all}]}

=============================================================================
