-------------------------------- MODULE Hook --------------------------------
(***************************************************************************)
(* hooks/surfaceguard_hook.py: one process per tool call. It reads the     *)
(* event, merges the configuration files, finds the skill's bundle, runs   *)
(* `surfaceguard guard` and answers. An answer that never comes, because   *)
(* the process ended with a traceback, lets the call proceed.              *)
(*                                                                         *)
(* A configuration file is a function from some of the keys to values      *)
(* ({} when absent, unreadable or not an object). A value is a string, or  *)
(* for the two list keys [list, items, plain]: whether it is a list, its   *)
(* strings, and whether every element can go into a Python set. Bad is a   *)
(* value of a type the code does not expect. A string or an object in      *)
(* place of a list is left out.                                            *)
(***************************************************************************)
EXTENDS Naturals

CONSTANTS
  Tools,         \* tool names
  Names,         \* skill names, each a plain directory name
  EnvConfigs,    \* what the file named by the environment may say, None if no file
  UserConfigs,   \* what ~/.claude may say, None if no file
  ProjectConfigs,\* what the project's .claude may say, None if no file
  Bad,           \* a value of another type
  None

-----------------------------------------------------------------------------
Keys == {"mode", "unresolved_action", "on_error", "builtin_allowlist", "trigger_tools",
         "log_file", "timeout_seconds", "skill_dirs"}
ListKeys == {"builtin_allowlist", "trigger_tools"}
ListOf(S) == [list |-> TRUE, items |-> S, plain |-> TRUE]

ModeRank == [m \in {"log", "block-invalid", "enforce"} |->
               CASE m = "log" -> 0 [] m = "block-invalid" -> 1 [] m = "enforce" -> 2]
ActionRank == [a \in {"allow", "warn", "deny"} |->
               CASE a = "allow" -> 0 [] a = "warn" -> 1 [] a = "deny" -> 2]
OnErrorRank == [a \in {"allow", "deny"} |-> IF a = "allow" THEN 0 ELSE 1]
RankOf(k) == CASE k = "mode" -> ModeRank
               [] k = "unresolved_action" -> ActionRank
               [] k = "on_error" -> OnErrorRank

\* The values of the list keys, and what a file may say.
Lists == [list : BOOLEAN, items : SUBSET (Tools \cup Names), plain : BOOLEAN]
IsFile(f) == \A k \in ListKeys \cap DOMAIN f : f[k] \in Lists

ASSUME HookAssumption ==
  /\ \A f \in (EnvConfigs \cup UserConfigs \cup ProjectConfigs) \ {None} : IsFile(f)
  /\ Bad \notin DOMAIN ModeRank
  /\ None \notin {"allow", "warn", "deny"}
  /\ "review" \in Names /\ "Skill" \in Tools

\* dict.update.
Overlay(c, file) == [k \in Keys |-> IF k \in DOMAIN file THEN file[k] ELSE c[k]]

\* Mutant: the project's word is taken.
RaiseAny(current, value, rank) == IF value \in DOMAIN rank THEN value ELSE current

\* _raise: a known word replaces the current value unless it ranks below it; an
\* unknown current value ranks 0.
Raise(current, value, rank) ==
  IF value \in DOMAIN rank /\ (current \in DOMAIN rank => rank[value] >= rank[current])
  THEN value ELSE current

\* _tighten_from_project, when it raises nothing: words are raised, the
\* allowlist is shrunk, the trigger tools are extended, the rest is ignored.
Tighten(c, project) ==
  [k \in Keys |->
     IF k \notin DOMAIN project THEN c[k]
     ELSE CASE k \in {"mode", "unresolved_action", "on_error"} -> Raise(c[k], project[k], RankOf(k))
            [] k = "builtin_allowlist" /\ project[k].list ->
                 [c[k] EXCEPT !.items = @ \cap project[k].items]
            [] k = "trigger_tools" /\ project[k].list ->
                 [c[k] EXCEPT !.items = @ \cup project[k].items]
            [] OTHER -> c[k]]

\* It raises on list(cur) of a value that is none, on set(value) of a list that
\* holds another list, and on asking the set for such an element.
TightenRaises(c, project) ==
  \/ \E k \in ListKeys \cap DOMAIN project : project[k].list /\ ~c[k].list
  \/ /\ "builtin_allowlist" \in DOMAIN project
     /\ project["builtin_allowlist"].list
     /\ ~(project["builtin_allowlist"].plain /\ c["builtin_allowlist"].plain)

-----------------------------------------------------------------------------
Default == [k \in Keys |->
  CASE k = "mode" -> "block-invalid"
    [] k = "unresolved_action" -> "warn"
    [] k = "on_error" -> "allow"
    [] k = "builtin_allowlist" -> ListOf({"review"})
    [] k = "trigger_tools" -> ListOf({"Skill"})
    [] OTHER -> "set"]

\* decide: whether an outcome blocks under a mode. An unknown mode blocks no
\* outcome of the gate.
BlockedByMode(mode) == CASE mode = "block-invalid" -> {"deny"}
                         [] mode = "enforce" -> {"deny", "warn"}
                         [] OTHER -> {}
BlocksUnresolved(c) == c["mode"] # "log" /\ c["unresolved_action"] = "deny"

\* A run of guard: [ended, rc, outcome, shaped]. It may not start or not end in
\* time (ended is FALSE), print no decision (None), and print a decision whose
\* other fields have the wrong shape.
GuardRuns ==
  {[ended |-> FALSE, rc |-> 0, outcome |-> None, shaped |-> FALSE]}
  \cup [ended : {TRUE}, rc : {0, 1, 3}, outcome : {"allow", "warn", "deny", None}, shaped : BOOLEAN]

\* Mutant: the exit code is not compared with the outcome.
UsableAnyExit(g) == g.ended /\ g.outcome # None

\* outcome_of: deny comes with exit 1, and nothing else does.
Usable(g) == g.ended /\ g.outcome # None /\ (g.outcome = "deny" <=> g.rc = 1)

Blocked(state) == [block |-> TRUE, state |-> state]
Passed(state) == [block |-> FALSE, state |-> state]
Judgement(block, state) == IF block THEN Blocked(state) ELSE Passed(state)

\* _error_decision.
ErrorDecision(c) == Judgement(c["on_error"] = "deny", "error")

\* evaluate without a bundle: the allowlist is asked, then the policy for
\* unresolved names. A list that cannot become a set raises.
DecideUnresolved(c, skill) ==
  IF ~(c["builtin_allowlist"].list /\ c["builtin_allowlist"].plain) THEN ErrorDecision(c)
  ELSE IF skill \in c["builtin_allowlist"].items THEN Passed("builtin")
  ELSE Judgement(BlocksUnresolved(c), "unresolved")

\* Mutant: a timeout is not caught.
DecideUncaught(c, g) ==
  IF c["timeout_seconds"] = Bad \/ ~g.ended THEN Passed("error")
  ELSE IF ~Usable(g) \/ (g.outcome # "allow" /\ c["mode"] = Bad) \/ ~g.shaped
  THEN ErrorDecision(c)
  ELSE Judgement(g.outcome \in BlockedByMode(c["mode"]), g.outcome)

\* evaluate with a bundle. A timeout that is no number raises (timeout_seconds
\* stands for every setting of the command), so does looking up a mode that
\* cannot be a dictionary key, and a misshapen decision.
DecideGuarded(c, g) ==
  IF \/ c["timeout_seconds"] = Bad \/ ~Usable(g)
     \/ g.outcome # "allow" /\ c["mode"] = Bad
     \/ ~g.shaped
  THEN ErrorDecision(c)
  ELSE Judgement(g.outcome \in BlockedByMode(c["mode"]), g.outcome)

-----------------------------------------------------------------------------
(***************************************************************************)
(* One process.                                                            *)
(***************************************************************************)
\* A tool call: [tool, skill, input]. input is "object", "other" (JSON, but not
\* an object) or "broken"; skill is a name, None (absent or empty) or Bad.
Events == [tool : Tools \cup {Bad}, skill : Names \cup {None, Bad},
           input : {"object", "other", "broken"}]

VARIABLES
  files,     \* [env, user, project]; None where there is no such file
  event,
  bundles,   \* names that resolve to a local bundle
  cfg,       \* the merged configuration
  pc,
  run,       \* what guard did, None before it ran
  decision,  \* evaluate_safely's result
  answer     \* "deny", "proceed" or, after a traceback, "crash"

vars == <<files, event, bundles, cfg, pc, run, decision, answer>>

Init ==
  /\ files \in [env : EnvConfigs, user : UserConfigs, project : ProjectConfigs]
  /\ event \in Events
  /\ bundles \in SUBSET Names
  /\ cfg = Default
  /\ pc = "start"
  /\ run = None
  /\ decision = None
  /\ answer = None

Finish(a) == pc' = "exited" /\ answer' = a

\* An event that is not JSON exits before the configuration is read.
Unparsed ==
  /\ pc = "start" /\ event.input = "broken"
  /\ Finish("proceed")
  /\ UNCHANGED <<files, event, bundles, cfg, run, decision>>

UserConfig == IF files.user = None THEN Default ELSE Overlay(Default, files.user)

\* load_config: the file the environment names is used alone.
LoadEnv ==
  /\ pc = "start" /\ event.input # "broken" /\ files.env # None
  /\ cfg' = Overlay(Default, files.env)
  /\ pc' = "dispatch"
  /\ UNCHANGED <<files, event, bundles, run, decision, answer>>

LoadUser ==
  /\ pc = "start" /\ event.input # "broken" /\ files.env = None
  /\ files.project # None => ~TightenRaises(UserConfig, files.project)
  /\ cfg' = IF files.project = None THEN UserConfig ELSE Tighten(UserConfig, files.project)
  /\ pc' = "dispatch"
  /\ UNCHANGED <<files, event, bundles, run, decision, answer>>

LoadCrashes ==
  /\ pc = "start" /\ event.input # "broken" /\ files.env = None
  /\ files.project # None /\ TightenRaises(UserConfig, files.project)
  /\ Finish("crash")
  /\ UNCHANGED <<files, event, bundles, cfg, run, decision>>

\* set(trigger_tools), and asking it for the tool.
DispatchCrashes ==
  /\ pc = "dispatch" /\ event.input = "object"
  /\ ~(cfg["trigger_tools"].list /\ cfg["trigger_tools"].plain) \/ event.tool = Bad
  /\ Finish("crash")
  /\ UNCHANGED <<files, event, bundles, cfg, run, decision>>

Triggered == event.tool \in cfg["trigger_tools"].items /\ event.skill # None

NotOurs ==
  /\ pc = "dispatch"
  /\ \/ event.input = "other"
     \/ /\ cfg["trigger_tools"].list /\ cfg["trigger_tools"].plain /\ event.tool # Bad
        /\ ~Triggered
  /\ Finish("proceed")
  /\ UNCHANGED <<files, event, bundles, cfg, run, decision>>

Dispatch ==
  /\ pc = "dispatch" /\ event.input = "object"
  /\ cfg["trigger_tools"].list /\ cfg["trigger_tools"].plain /\ event.tool # Bad
  /\ Triggered
  /\ pc' = "resolve"
  /\ UNCHANGED <<files, event, bundles, cfg, run, decision, answer>>

Decided(d) == decision' = d /\ pc' = "audit" /\ UNCHANGED <<files, event, bundles, cfg, answer>>

\* A name that is no string, and directories that are no list, are errors.
ResolveFails ==
  /\ pc = "resolve"
  /\ event.skill = Bad \/ cfg["skill_dirs"] = Bad
  /\ Decided(ErrorDecision(cfg)) /\ UNCHANGED run

Resolvable == event.skill # Bad /\ cfg["skill_dirs"] # Bad

Unresolved ==
  /\ pc = "resolve" /\ Resolvable /\ event.skill \notin bundles
  /\ Decided(DecideUnresolved(cfg, event.skill)) /\ UNCHANGED run

\* run_guard and what is made of it.
RunGuard ==
  /\ pc = "resolve" /\ Resolvable /\ event.skill \in bundles
  /\ \E g \in GuardRuns : run' = g /\ Decided(DecideGuarded(cfg, g))

\* audit_log: the path is expanded outside the try.
AuditCrashes ==
  /\ pc = "audit" /\ cfg["log_file"] = Bad
  /\ Finish("crash")
  /\ UNCHANGED <<files, event, bundles, cfg, run, decision>>

\* emit.
Emit ==
  /\ pc = "audit" /\ cfg["log_file"] # Bad
  /\ Finish(IF decision.block THEN "deny" ELSE "proceed")
  /\ UNCHANGED <<files, event, bundles, cfg, run, decision>>

Exited == pc = "exited" /\ UNCHANGED vars

Next ==
  \/ Unparsed \/ LoadEnv \/ LoadUser \/ LoadCrashes
  \/ DispatchCrashes \/ NotOurs \/ Dispatch
  \/ ResolveFails \/ Unresolved \/ RunGuard
  \/ AuditCrashes \/ Emit \/ Exited

Spec == Init /\ [][Next]_vars

-----------------------------------------------------------------------------
AreLists(c) == \A k \in ListKeys : c[k].list /\ c[k].plain
Answers == {"deny", "proceed", "crash"}

TypeOK ==
  /\ DOMAIN cfg = Keys
  /\ pc \in {"start", "dispatch", "resolve", "audit", "exited"}
  /\ run \in GuardRuns \cup {None}
  /\ pc = "audit" => decision \in [block : BOOLEAN,
       state : {"allow", "warn", "deny", "error", "builtin", "unresolved"}]
  /\ answer \in Answers \cup {None}
  /\ answer # None <=> pc = "exited"

\* What a process with the merged configuration c answers to the event, given
\* what the disk and the guard command say: the whole hook as one function.
Asked(c) == event.tool \in c["trigger_tools"].items /\ event.skill # None
DecisionUnder(c) ==
  IF event.skill = Bad \/ c["skill_dirs"] = Bad THEN ErrorDecision(c)
  ELSE IF event.skill \notin bundles THEN DecideUnresolved(c, event.skill)
  ELSE DecideGuarded(c, run)
DeniesUnder(c) == event.input = "object" /\ Asked(c) /\ c["log_file"] # Bad /\ DecisionUnder(c).block

\* The project's configuration may only tighten: what the user's own files would
\* deny is denied with the project's on top, for every tool call, every state of
\* the disk and every answer of the guard command, a failing one included. The
\* user's mode must be a known one and both lists must be lists of plain values.
ProjectOnlyTightens ==
  (/\ pc = "exited" /\ files.env = None /\ files.project # None
   /\ UserConfig["mode"] \in DOMAIN ModeRank
   /\ AreLists(UserConfig)
   /\ \A k \in ListKeys \cap DOMAIN files.project : files.project[k].plain
   /\ event.tool # Bad
   /\ DeniesUnder(UserConfig))
    => answer = "deny"

\* A call for a skill that the hook is asked about.
Ours == event.input = "object" /\ event.tool # Bad /\ Asked(cfg)
Orderly == AreLists(cfg) /\ cfg["log_file"] # Bad

\* With everything set to deny, a skill is used only when it is the harness's own
\* and no local bundle has its name, or when guard ended in time with an allow
\* and the exit code that belongs to one.
StrictestAdmitsOnlyAllowed ==
  (/\ pc = "exited" /\ answer # "deny" /\ Ours /\ Orderly
   /\ cfg["mode"] = "enforce" /\ cfg["unresolved_action"] = "deny" /\ cfg["on_error"] = "deny")
    => \/ event.skill \in cfg["builtin_allowlist"].items \ bundles
       \/ event.skill \in bundles /\ run.ended /\ run.outcome = "allow" /\ run.rc # 1

\* on_error: deny denies whenever evaluation fails, in every mode: no bundle
\* can be looked for, or guard did not end, or its exit code contradicts it, or
\* its document is not one.
ErrorsFollowOnError ==
  (/\ pc = "exited" /\ Ours /\ Orderly /\ cfg["on_error"] = "deny"
   /\ \/ event.skill = Bad
      \/ cfg["skill_dirs"] = Bad
      \/ /\ event.skill \in bundles
         /\ \/ ~run.ended \/ run.outcome = None \/ ~run.shaped
            \/ (run.rc = 1) # (run.outcome = "deny")
            \/ cfg["timeout_seconds"] = Bad)
    => answer = "deny"

\* surfaceguard_hook.py on audit_log: "never fail the hook on a log write". So a
\* denial that was decided is given. Refuted by a run of its own.
DecisionsAreGiven ==
  pc = "exited" /\ decision # None /\ decision.block => answer = "deny"
=============================================================================
