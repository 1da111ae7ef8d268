------------------------------- MODULE MCHook -------------------------------
(* Values for model checking Hook: user and project files that are lax,      *)
(* strict, unknown words or of the wrong type.                               *)
EXTENDS Hook, TLC

File(m, u, e) == ("mode" :> m) @@ ("unresolved_action" :> u) @@ ("on_error" :> e)
NotAList == [list |-> FALSE, items |-> {}, plain |-> FALSE]
NotPlain == [list |-> TRUE, items |-> {"review"}, plain |-> FALSE]
Allow(v) == "builtin_allowlist" :> v
Trigger(v) == "trigger_tools" :> v

MCUser ==
  {None, << >>, File("log", "deny", "deny"), File("enforce", "deny", "deny"),
   File("block-invalid", "deny", "allow"), File("block-invalid", "warn", "deny"),
   File("typo", "deny", "allow"), File("enforce", Bad, Bad), "mode" :> Bad,
   Allow(NotAList), Allow(NotPlain), Trigger(NotAList),
   Allow(ListOf({"review", "x"})) @@ Trigger(ListOf({"Skill", "Read"})) @@ File("enforce", "deny", "deny"),
   ("timeout_seconds" :> Bad) @@ ("on_error" :> "deny"),
   ("skill_dirs" :> Bad) @@ ("on_error" :> "deny"),
   ("log_file" :> Bad) @@ ("mode" :> "enforce")}
MCProject ==
  {None, << >>, File("log", "allow", "allow"), File("enforce", "deny", "deny"),
   File("typo", "warn", Bad), "mode" :> "log",
   Allow(ListOf({"x"})), Allow(NotAList), Allow(NotPlain), Allow(ListOf({})),
   Trigger(ListOf({"Read"})), Trigger(NotAList),
   ("timeout_seconds" :> Bad) @@ ("skill_dirs" :> Bad) @@ ("log_file" :> Bad)}
MCEnv == {None, File("enforce", "deny", "deny")}
=============================================================================
