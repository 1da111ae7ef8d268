----------------------------- MODULE HookProofs -----------------------------
(***************************************************************************)
(* Proofs about Hook, for every content of the three configuration files,  *)
(* every tool call, every state of the skill directories and every answer  *)
(* of the guard command.                                                   *)
(*                                                                         *)
(* The argument: a merged configuration is stricter than the user's own in *)
(* every key that bears on an answer (TightenIsStricter); what a stricter  *)
(* configuration decides blocks whenever the laxer one's decision does     *)
(* (StricterBlocks); and what a process answers is what its merged         *)
(* configuration decides (the invariant IInv).                             *)
(***************************************************************************)
EXTENDS Hook, TLAPS

Known == DOMAIN ModeRank

\* Words and lists are of the right type.
IsConfig(c) == DOMAIN c = Keys /\ \A k \in ListKeys : c[k] \in Lists

\* d blocks whatever c blocks, key by key.
Stricter(d, c) ==
  /\ d["mode"] \in Known
  /\ c["mode"] = "block-invalid" => d["mode"] \in {"block-invalid", "enforce"}
  /\ c["mode"] = "enforce" => d["mode"] = "enforce"
  /\ c["unresolved_action"] = "deny" => d["unresolved_action"] = "deny"
  /\ c["on_error"] = "deny" => d["on_error"] = "deny"
  /\ AreLists(d)
  /\ d["builtin_allowlist"].items \subseteq c["builtin_allowlist"].items
  /\ c["trigger_tools"].items \subseteq d["trigger_tools"].items
  /\ \A k \in {"log_file", "timeout_seconds", "skill_dirs"} : d[k] = c[k]

-----------------------------------------------------------------------------
LEMMA DefaultIsConfig == IsConfig(Default)
<1>1. \A S \in SUBSET (Tools \cup Names) : ListOf(S) \in Lists
  BY DEF ListOf, Lists
<1>2. Default["builtin_allowlist"] = ListOf({"review"}) /\ Default["trigger_tools"] = ListOf({"Skill"})
  BY DEF Default, Keys
<1>3. {"review"} \in SUBSET (Tools \cup Names) /\ {"Skill"} \in SUBSET (Tools \cup Names)
  BY HookAssumption
<1>4. DOMAIN Default = Keys
  BY DEF Default
<1> QED  BY <1>1, <1>2, <1>3, <1>4 DEF IsConfig, ListKeys

LEMMA OverlayIsConfig ==
  ASSUME NEW c, IsConfig(c), NEW f, IsFile(f)
  PROVE  IsConfig(Overlay(c, f))
BY DEF IsConfig, IsFile, Overlay, Keys, ListKeys

\* _raise never lowers a known word.
LEMMA RaiseMode ==
  ASSUME NEW current \in Known, NEW value
  PROVE  /\ Raise(current, value, ModeRank) \in Known
         /\ current = "block-invalid" => Raise(current, value, ModeRank) \in {"block-invalid", "enforce"}
         /\ current = "enforce" => Raise(current, value, ModeRank) = "enforce"
BY DEF Raise, ModeRank, Known

LEMMA RaiseAction ==
  ASSUME NEW value
  PROVE  Raise("deny", value, ActionRank) = "deny"
BY DEF Raise, ActionRank

LEMMA RaiseOnError ==
  ASSUME NEW value
  PROVE  Raise("deny", value, OnErrorRank) = "deny"
BY DEF Raise, OnErrorRank

LEMMA TightenIsStricter ==
  ASSUME NEW c, IsConfig(c), c["mode"] \in Known, AreLists(c),
         NEW p, IsFile(p)
  PROVE  Stricter(Tighten(c, p), c)
<1> DEFINE d == Tighten(c, p)
<1>1. d["mode"] = IF "mode" \in DOMAIN p THEN Raise(c["mode"], p["mode"], ModeRank) ELSE c["mode"]
  BY DEF Tighten, Keys, RankOf
<1>2. d["unresolved_action"] = IF "unresolved_action" \in DOMAIN p
        THEN Raise(c["unresolved_action"], p["unresolved_action"], ActionRank) ELSE c["unresolved_action"]
  BY DEF Tighten, Keys, RankOf
<1>3. d["on_error"] = IF "on_error" \in DOMAIN p
        THEN Raise(c["on_error"], p["on_error"], OnErrorRank) ELSE c["on_error"]
  BY DEF Tighten, Keys, RankOf
<1>4. d["builtin_allowlist"] = IF "builtin_allowlist" \in DOMAIN p /\ p["builtin_allowlist"].list
        THEN [c["builtin_allowlist"] EXCEPT !.items = @ \cap p["builtin_allowlist"].items]
        ELSE c["builtin_allowlist"]
  BY DEF Tighten, Keys
<1>5. d["trigger_tools"] = IF "trigger_tools" \in DOMAIN p /\ p["trigger_tools"].list
        THEN [c["trigger_tools"] EXCEPT !.items = @ \cup p["trigger_tools"].items]
        ELSE c["trigger_tools"]
  BY DEF Tighten, Keys
<1>6. \A k \in {"log_file", "timeout_seconds", "skill_dirs"} : d[k] = c[k]
  BY DEF Tighten, Keys
<1>7. /\ d["mode"] \in Known
      /\ c["mode"] = "block-invalid" => d["mode"] \in {"block-invalid", "enforce"}
      /\ c["mode"] = "enforce" => d["mode"] = "enforce"
  BY <1>1, RaiseMode
<1>8. c["unresolved_action"] = "deny" => d["unresolved_action"] = "deny"
  BY <1>2, RaiseAction
<1>9. c["on_error"] = "deny" => d["on_error"] = "deny"
  BY <1>3, RaiseOnError
<1>10. /\ d["builtin_allowlist"].list /\ d["builtin_allowlist"].plain
       /\ d["builtin_allowlist"].items \subseteq c["builtin_allowlist"].items
  BY <1>4 DEF IsConfig, AreLists, ListKeys, Lists
<1>11. /\ d["trigger_tools"].list /\ d["trigger_tools"].plain
       /\ c["trigger_tools"].items \subseteq d["trigger_tools"].items
  BY <1>5 DEF IsConfig, AreLists, ListKeys, Lists
<1> QED  BY <1>6, <1>7, <1>8, <1>9, <1>10, <1>11 DEF Stricter, AreLists, ListKeys

\* The bundle is there, or the name does not resolve, under both alike.
LEMMA StricterBlocks ==
  ASSUME NEW c, NEW d, c["mode"] \in Known, AreLists(c), Stricter(d, c), DecisionUnder(c).block
  PROVE  DecisionUnder(d).block
<1> USE DEF Stricter, Judgement, Blocked, Passed, ErrorDecision
<1>1. c["mode"] # Bad /\ d["mode"] # Bad
  BY HookAssumption DEF Known
<1>2. CASE event.skill = Bad \/ c["skill_dirs"] = Bad
  BY <1>2 DEF DecisionUnder
<1>3. CASE ~(event.skill = Bad \/ c["skill_dirs"] = Bad) /\ event.skill \notin bundles
  BY <1>3 DEF DecisionUnder, DecideUnresolved, AreLists, ListKeys, BlocksUnresolved, Known, ModeRank
<1>4. CASE ~(event.skill = Bad \/ c["skill_dirs"] = Bad) /\ event.skill \in bundles
  <2>1. BlockedByMode(c["mode"]) \subseteq BlockedByMode(d["mode"])
    BY DEF BlockedByMode, Known, ModeRank
  <2>2. DecisionUnder(c) = DecideGuarded(c, run) /\ DecisionUnder(d) = DecideGuarded(d, run)
    BY <1>4 DEF DecisionUnder
  <2> QED  BY <1>1, <2>1, <2>2 DEF DecideGuarded
<1> QED  BY <1>2, <1>3, <1>4
-----------------------------------------------------------------------------
(***************************************************************************)
(* The invariant. A process answers what its merged configuration decides, *)
(* unless it ended before it decided.                                      *)
(***************************************************************************)
Merged ==
  IF files.env # None THEN Overlay(Default, files.env)
  ELSE IF files.project = None THEN UserConfig
  ELSE Tighten(UserConfig, files.project)

Loadable == files.env # None \/ files.project = None \/ ~TightenRaises(UserConfig, files.project)

\* The call passed the dispatch.
Dispatched ==
  /\ event.input = "object" /\ event.tool # Bad
  /\ cfg["trigger_tools"].list /\ cfg["trigger_tools"].plain
  /\ Triggered

\* Guard ran if there was a bundle to run it on.
RanIfResolved ==
  (event.skill # Bad /\ cfg["skill_dirs"] # Bad /\ event.skill \in bundles) => run \in GuardRuns

\* Why a process that gave no decision may exit.
NotConcerned ==
  \/ event.input = "other"
  \/ ~(cfg["trigger_tools"].list /\ cfg["trigger_tools"].plain)
  \/ event.tool = Bad
  \/ ~Triggered

Answered ==
  /\ Loadable
  /\ cfg = Merged
  /\ \/ NotConcerned
     \/ cfg["log_file"] = Bad
     \/ RanIfResolved /\ answer = IF DecisionUnder(cfg).block THEN "deny" ELSE "proceed"

IInv ==
  /\ files \in [env : EnvConfigs, user : UserConfigs, project : ProjectConfigs]
  /\ event \in Events
  /\ pc \in {"start", "dispatch", "resolve", "audit", "exited"}
  /\ pc \in {"start", "dispatch"} => cfg \in {Default, Merged} /\ run = None
  /\ pc = "start" => cfg = Default
  /\ pc \in {"dispatch", "resolve", "audit"} => Loadable /\ cfg = Merged
  /\ pc \in {"resolve", "audit"} => Dispatched
  /\ pc = "audit" => RanIfResolved /\ decision = DecisionUnder(cfg)
  /\ pc = "exited" =>
       \/ event.input = "broken" /\ cfg = Default
       \/ ~Loadable /\ cfg = Default
       \/ Answered

LEMMA InitIInv == Init => IInv
BY DEF Init, IInv, Merged

LEMMA StepIInv == IInv /\ [Next]_vars => IInv'
<1> SUFFICES ASSUME IInv, [Next]_vars PROVE IInv'
  OBVIOUS
<1> USE DEF Finish, Decided, IInv
<1>1. CASE Unparsed
  BY <1>1 DEF Unparsed
<1>2. CASE LoadEnv
  BY <1>2 DEF LoadEnv, Merged, Loadable
<1>3. CASE LoadUser
  BY <1>3 DEF LoadUser, Merged, Loadable, UserConfig
<1>4. CASE LoadCrashes
  BY <1>4 DEF LoadCrashes, Loadable, UserConfig
<1>5. CASE DispatchCrashes
  BY <1>5 DEF DispatchCrashes, Answered, NotConcerned, Loadable, Merged, UserConfig
<1>6. CASE NotOurs
  BY <1>6 DEF NotOurs, Answered, NotConcerned, Triggered, Loadable, Merged, UserConfig
<1>7. CASE Dispatch
  BY <1>7 DEF Dispatch, Dispatched, Triggered, Loadable, Merged, UserConfig
<1>8. CASE ResolveFails
  BY <1>8 DEF ResolveFails, Dispatched, Triggered, Loadable, Merged, UserConfig, RanIfResolved, DecisionUnder
<1>9. CASE Unresolved
  BY <1>9 DEF Unresolved, Resolvable, Dispatched, Triggered, Loadable, Merged, UserConfig, RanIfResolved,
              DecisionUnder
<1>10. CASE RunGuard
  BY <1>10 DEF RunGuard, Resolvable, Dispatched, Triggered, Loadable, Merged, UserConfig, RanIfResolved,
               DecisionUnder
<1>11. CASE AuditCrashes
  BY <1>11 DEF AuditCrashes, Answered, Loadable, Merged, UserConfig
<1>12. CASE Emit
  BY <1>12 DEF Emit, Answered, RanIfResolved, DecisionUnder, Loadable, Merged, UserConfig
<1>13. CASE UNCHANGED vars
  BY <1>13 DEF vars, Answered, NotConcerned, Triggered, Dispatched, RanIfResolved, DecisionUnder, Loadable,
               Merged, UserConfig
<1> QED
  BY <1>1, <1>2, <1>3, <1>4, <1>5, <1>6, <1>7, <1>8, <1>9, <1>10, <1>11, <1>12, <1>13 DEF Next, Exited

LEMMA Invariant == Spec => []IInv
BY InitIInv, StepIInv, PTL DEF Spec

LEMMA UserIsConfig ==
  ASSUME IInv
  PROVE  IsConfig(UserConfig)
BY DefaultIsConfig, OverlayIsConfig, HookAssumption DEF IInv, UserConfig

LEMMA IInvTightens == IInv => ProjectOnlyTightens
<1> SUFFICES ASSUME IInv, pc = "exited", files.env = None, files.project # None,
                    UserConfig["mode"] \in Known, AreLists(UserConfig),
                    \A k \in ListKeys \cap DOMAIN files.project : files.project[k].plain,
                    event.tool # Bad, DeniesUnder(UserConfig)
             PROVE  answer = "deny"
  BY DEF ProjectOnlyTightens, Known
<1>1. IsConfig(UserConfig)
  BY UserIsConfig
<1>2. IsFile(files.project)
  BY HookAssumption DEF IInv
<1>3. Loadable
  BY DEF Loadable, TightenRaises, AreLists, ListKeys
<1>4. event.input = "object" /\ Asked(UserConfig) /\ UserConfig["log_file"] # Bad
      /\ DecisionUnder(UserConfig).block
  BY DEF DeniesUnder
<1>5. Answered
  BY <1>3, <1>4 DEF IInv
<1>6. cfg = Tighten(UserConfig, files.project)
  BY <1>5 DEF Answered, Merged
<1>7. Stricter(cfg, UserConfig)
  BY <1>1, <1>2, <1>6, TightenIsStricter
<1>8. ~NotConcerned /\ cfg["log_file"] # Bad
  BY <1>4, <1>7 DEF NotConcerned, Stricter, AreLists, ListKeys, Triggered, Asked
<1>9. DecisionUnder(cfg).block
  BY <1>4, <1>7, StricterBlocks
<1> QED  BY <1>5, <1>8, <1>9 DEF Answered

\* A concerned call whose log file can be named gets what cfg decides.
LEMMA OursAreAnswered ==
  ASSUME IInv, pc = "exited", Ours, Orderly, cfg["on_error"] = "deny"
  PROVE  RanIfResolved /\ answer = IF DecisionUnder(cfg).block THEN "deny" ELSE "proceed"
<1>1. cfg # Default
  BY DEF Default, Keys
<1>2. event.input = "object"
  BY DEF Ours
<1>3. Answered
  BY <1>1, <1>2 DEF IInv
<1>4. ~NotConcerned /\ cfg["log_file"] # Bad
  BY DEF NotConcerned, Ours, Orderly, AreLists, ListKeys, Triggered, Asked
<1> QED  BY <1>3, <1>4 DEF Answered

LEMMA IInvStrictest == IInv => StrictestAdmitsOnlyAllowed
<1> SUFFICES ASSUME IInv, pc = "exited", answer # "deny", Ours, Orderly, cfg["mode"] = "enforce",
                    cfg["unresolved_action"] = "deny", cfg["on_error"] = "deny"
             PROVE  \/ event.skill \in cfg["builtin_allowlist"].items \ bundles
                    \/ event.skill \in bundles /\ run.ended /\ run.outcome = "allow" /\ run.rc # 1
  BY DEF StrictestAdmitsOnlyAllowed
<1> USE DEF Judgement, Blocked, Passed, ErrorDecision
<1>1. RanIfResolved /\ ~DecisionUnder(cfg).block
  BY OursAreAnswered
<1>2. event.skill # Bad /\ cfg["skill_dirs"] # Bad
  BY <1>1 DEF DecisionUnder
<1>3. CASE event.skill \notin bundles
  BY <1>1, <1>2, <1>3 DEF DecisionUnder, DecideUnresolved, BlocksUnresolved, Orderly, AreLists, ListKeys
<1>4. CASE event.skill \in bundles
  <2>1. run \in GuardRuns
    BY <1>1, <1>2, <1>4 DEF RanIfResolved
  <2>2. Usable(run) /\ run.outcome \notin {"deny", "warn"}
    BY <1>1, <1>2, <1>4 DEF DecisionUnder, DecideGuarded, BlockedByMode
  <2>3. run.outcome \in {"allow", "warn", "deny", None}
    <3>1. CASE run = [ended |-> FALSE, rc |-> 0, outcome |-> None, shaped |-> FALSE]
      BY <3>1
    <3>2. CASE run \in [ended : {TRUE}, rc : {0, 1, 3}, outcome : {"allow", "warn", "deny", None},
                        shaped : BOOLEAN]
      BY <3>2
    <3> QED  BY <2>1, <3>1, <3>2 DEF GuardRuns
  <2> QED  BY <1>4, <2>2, <2>3 DEF Usable
<1> QED  BY <1>3, <1>4

LEMMA IInvFollows == IInv => ErrorsFollowOnError
<1> SUFFICES ASSUME IInv, pc = "exited", Ours, Orderly, cfg["on_error"] = "deny",
                    \/ event.skill = Bad
                    \/ cfg["skill_dirs"] = Bad
                    \/ /\ event.skill \in bundles
                       /\ \/ ~run.ended \/ run.outcome = None \/ ~run.shaped
                          \/ (run.rc = 1) # (run.outcome = "deny")
                          \/ cfg["timeout_seconds"] = Bad
             PROVE  answer = "deny"
  BY DEF ErrorsFollowOnError
<1>1. DecisionUnder(cfg) = ErrorDecision(cfg)
  BY DEF DecisionUnder, DecideGuarded, Usable
<1> QED  BY <1>1, OursAreAnswered DEF ErrorDecision, Judgement, Blocked

-----------------------------------------------------------------------------
\* The project's configuration only tightens: whatever the three files say, and
\* whatever the disk and the guard command answer, load_config and evaluate deny
\* with the project's file on top of the user's what they deny without it.
THEOREM OnlyTightens == Spec => []ProjectOnlyTightens
BY Invariant, IInvTightens, PTL

\* Under enforce, with every action set to deny, evaluate and emit let a call
\* proceed only for a built-in name without a bundle, or on guard's own allow.
THEOREM OnlyAllowedProceed == Spec => []StrictestAdmitsOnlyAllowed
BY Invariant, IInvStrictest, PTL

\* A failing evaluation is denied under on_error: deny, in every mode.
THEOREM FailuresFollow == Spec => []ErrorsFollowOnError
BY Invariant, IInvFollows, PTL
=============================================================================
