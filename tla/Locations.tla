----------------------------- MODULE Locations -----------------------------
(***************************************************************************)
(* pkg/locations: the folders that well-known agents load skills from, as  *)
(* locations.yaml records them and as they resolve on one machine.         *)
(*                                                                         *)
(* An agent is [id, source, locations], its locations a sequence of        *)
(* entries [scope, path, walkUp, os, legacy]. An entry's path is a         *)
(* sequence of pieces: a text [var |-> NoVar, text |-> {names}], or a      *)
(* variable with its default, if it has one, as the text. Names are        *)
(* numbers, as in Discovery, Tilde the one that may stand for the home     *)
(* directory; ids are numbers as well, in the order of their strings.      *)
(*                                                                         *)
(* A machine is [home, vars, os, repos]: at most one home, the value of    *)
(* each variable (empty when unset), the system, and the directories that  *)
(* hold a .git.                                                            *)
(***************************************************************************)
EXTENDS Discovery

CONSTANTS
  Registry,    \* the agents of locations.yaml, in the order of the file
  MaxWalkUp    \* the number of directories a walk_up looks at

Scopes == <<"user", "project", "plugin", "admin">>
ScopeRank(scope) == CHOOSE i \in DOMAIN Scopes : Scopes[i] = scope

Tilde == -1
NoVar == "none"
NoId == 0

\* Parse accepts a registry whose ids are there and differ, whose agents cite a
\* source, and which looks above the project for project entries alone.
ParseAccepts(agents) ==
  /\ \A i, j \in DOMAIN agents : agents[i].id = agents[j].id => i = j
  /\ \A a \in ToSet(agents) :
       /\ a.id # NoId /\ a.source # ""
       /\ \A e \in ToSet(a.locations) :
            e.scope \in ToSet(Scopes) /\ (e.walkUp => e.scope = "project")

ASSUME RegistryIsParsed == ParseAccepts(Registry) /\ MaxWalkUp \in Nat \ {0}

\* What a registry is made of.
Pieces == UNION {ToSet(e.path) : e \in UNION {ToSet(a.locations) : a \in ToSet(Registry)}}
ASSUME RegistryIsTyped ==
  /\ Registry \in Seq(ToSet(Registry))
  /\ \A a \in ToSet(Registry) :
       /\ a.id \in Int /\ a.locations \in Seq(ToSet(a.locations))
       /\ \A e \in ToSet(a.locations) : e.path \in Seq(ToSet(e.path)) /\ e.walkUp \in BOOLEAN
  /\ \A piece \in Pieces : piece.text \subseteq Seq(Int)

-----------------------------------------------------------------------------
\* expand: the path of a template, or nothing when a variable without a default
\* is unset. A leading tilde counts wherever it came from.
Value(piece, env) ==
  IF piece.var # NoVar /\ env.vars[piece.var] # {} THEN env.vars[piece.var] ELSE piece.text

Expand(template, env) ==
  LET values == [i \in DOMAIN template |-> Value(template[i], env)]
      joined == FlattenSeq([i \in DOMAIN values |-> CHOOSE v \in values[i] : TRUE])
  IN IF \E i \in DOMAIN values : values[i] = {} THEN {}
     ELSE IF joined # <<>> /\ Head(joined) = Tilde THEN {h \o Tail(joined) : h \in env.home}
     ELSE {joined}

\* projectDirs: with walk_up also the directories above, up to the repository's
\* root; without one among the first MaxWalkUp, the project directory alone.
Above(dir, n) == SubSeq(dir, 1, Len(dir) - n)
HoldsGit(dir, env) == Searchable(EvalSymlinks(dir)) /\ EvalSymlinks(dir) \in env.repos

ProjectDirs(dir, walkUp, env) ==
  LET found == {n \in 0..Len(dir) : n < MaxWalkUp /\ HoldsGit(Above(dir, n), env)}
  IN IF ~walkUp \/ found = {} THEN <<dir>>
     ELSE [n \in 1..(CHOOSE m \in found : \A k \in found : m <= k) + 1 |-> Above(dir, n - 1)]

\* selectAgents: all of them, or those named, in the order they are named.
Known(ids) == \A i \in DOMAIN ids : \E a \in ToSet(Registry) : a.id = ids[i]
SelectAgents(ids) ==
  IF ids = <<>> THEN Registry
  ELSE [i \in DOMAIN ids |-> CHOOSE a \in ToSet(Registry) : a.id = ids[i]]

-----------------------------------------------------------------------------
\* The calls of add that one entry makes: the entry at each of its paths.
Selected(e, env, filter) ==
  /\ filter.scopes = {} \/ e.scope \in filter.scopes
  /\ e.os = {} \/ env.os \in e.os

Adds(a, e, env, filter, dir) ==
  LET At(p) == [path |-> p, agent |-> a.id, source |-> a.source, scope |-> e.scope, legacy |-> e.legacy]
  IN IF ~Selected(e, env, filter) \/ Expand(e.path, env) = {} THEN <<>>
     ELSE LET p == CHOOSE x \in Expand(e.path, env) : TRUE
              dirs == ProjectDirs(dir, e.walkUp, env)
          IN IF e.scope # "project" THEN <<At(p)>>
             ELSE [i \in DOMAIN dirs |-> At(dirs[i] \o p)]

\* Mutant: the agent that names a folder first is the one it belongs to.
FolderOfFirst(adds, p) ==
  LET mine == {i \in DOMAIN adds : adds[i].path = p}
      first == CHOOSE i \in mine : \A j \in mine : i <= j
  IN [path |-> p, scope |-> adds[first].scope,
      agents |-> {adds[first].agent}, sources |-> {adds[first].source},
      legacy |-> \A i \in mine : adds[i].legacy,
      exists |-> IsDir(EvalSymlinks(p))]

\* What the calls of add leave under one path: the scope of the first, the agents
\* and sources of all; legacy when nobody documents it.
Folder(adds, p) ==
  LET mine == {i \in DOMAIN adds : adds[i].path = p}
      first == CHOOSE i \in mine : \A j \in mine : i <= j
  IN [path |-> p, scope |-> adds[first].scope,
      agents |-> {adds[i].agent : i \in mine}, sources |-> {adds[i].source : i \in mine},
      legacy |-> \A i \in mine : adds[i].legacy,
      exists |-> IsDir(EvalSymlinks(p))]

\* The calls of add for the agents of a selection.
Calls(env, filter, dir) ==
  LET agents == SelectAgents(filter.agents)
  IN FlattenSeq([i \in DOMAIN agents |->
       FlattenSeq([j \in DOMAIN agents[i].locations |->
         Adds(agents[i], agents[i].locations[j], env, filter, dir)])])

FoldersIn(adds) == {Folder(adds, p) : p \in {adds[i].path : i \in DOMAIN adds}}

Sooner(l, m) ==
  \/ ScopeRank(l.scope) < ScopeRank(m.scope)
  \/ l.scope = m.scope /\ Less(l.path, m.path)

ByScope(folders) == InOrder(folders, {lm \in folders \X folders : Sooner(lm[1], lm[2])})

\* Resolve, for agents and scopes it knows: each path once, by scope and path. A
\* set of one sequence.
Resolve(env, filter, dir) ==
  {ByScope(folders) : folders \in {FoldersIn(adds) : adds \in {Calls(env, filter, dir)}}}

-----------------------------------------------------------------------------
(***************************************************************************)
(* The folders an agent reads under a selection, said without the calls    *)
(* that collect them: a project entry is read from the project directory   *)
(* and, with walk_up, from every directory between it and the nearest one  *)
(* that holds a .git, unless that is MaxWalkUp or more above.              *)
(***************************************************************************)
Bases(e, env, dir) ==
  IF e.scope # "project" THEN {<<>>}
  ELSE {dir} \cup
       {u \in {Above(dir, n) : n \in 1..Len(dir)} :
          /\ e.walkUp
          /\ \E g \in {Above(dir, n) : n \in 0..Len(dir)} :
               /\ HoldsGit(g, env) /\ IsPrefix(g, u) /\ Len(dir) - Len(g) < MaxWalkUp
               /\ \A v \in {Above(dir, n) : n \in 0..Len(dir)} : IsStrictPrefix(g, v) => ~HoldsGit(v, env)}

FoldersOf(a, env, filter, dir) ==
  UNION {{b \o p : b \in Bases(e, env, dir), p \in Expand(e.path, env)} :
           e \in {x \in ToSet(a.locations) : Selected(x, env, filter)}}
=============================================================================
