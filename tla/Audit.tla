------------------------------- MODULE Audit -------------------------------
(***************************************************************************)
(* `surfaceguard scan` and `surfaceguard locations` (cmd/surfaceguard:     *)
(* commands.go, scan_many.go, installed.go): from arguments to exit code,  *)
(* over one skill, over every skill below some folders, or over what the   *)
(* agents of this machine load. Discovery is taken step by step; the pool  *)
(* that scans what it found is ScanPool's, and here one step whose result  *)
(* is that of every candidate.                                             *)
(*                                                                         *)
(* A command is a record                                                   *)
(*   verb       "scan" or "locations"                                      *)
(*   args       the paths it names                                         *)
(*   installed  --installed                                                *)
(*   filter     --agent and --scope: [agents, scopes]                      *)
(*   dir        --project-dir, or where it runs                            *)
(*   env        the machine, as Locations has it                           *)
(*   limits     --max-depth and --max-bundles: [depth, bundles]            *)
(*   fault      what goes wrong beside the skills, or "none"               *)
(***************************************************************************)
EXTENDS Locations

CONSTANTS
  FileSystems,   \* file systems to look at
  Commands,      \* command lines
  DefaultLimits  \* --max-depth and --max-bundles when not given

\* A directory is in one that is there; a link is neither, nor is what is named SKILL.md
\* in a skill's directory a directory.
ASSUME FileSystemsAreTrees ==
  \A f \in FileSystems :
    /\ IsFiniteSet(f.dirs) /\ f.dirs \subseteq Seq(Nat) /\ \A u \in f.dirs \ {<<>>} : Front(u) \in f.dirs
    /\ f.skills \subseteq f.dirs /\ \A s \in f.skills : Append(s, SkillFile) \notin f.dirs
    /\ f.closed \subseteq Seq(Nat)
    /\ \A l \in DOMAIN f.links :
         l \in Seq(Nat) \ {<<>>} /\ Front(l) \in f.dirs /\ l \notin f.dirs /\ f.links[l] \in Seq(Nat)

ASSUME CommandsAreTyped ==
  \A c \in Commands :
    /\ c.args \in Seq(Seq(Int)) /\ c.dir \in Seq(Int) /\ c.env.home \subseteq Seq(Int)
    /\ \A h, k \in c.env.home : h = k
    /\ \A piece \in Pieces : piece.var # NoVar => c.env.vars[piece.var] \subseteq Seq(Int)
    /\ c.filter.agents \in Seq(Int)

ASSUME DefaultsAreNumbers == DefaultLimits \in [depth : Nat, bundles : Nat]

Running == -1

VARIABLES
  cmd,       \* the command
  locs,      \* what Resolve returns for it: the disk is the same whenever it is asked
  at,        \* where the command stands
  rows,      \* the report: [path, real, also, status, score, agents] per bundle
  counts,    \* the skills `locations` counted, folder by folder
  exit       \* the exit code, or Running

vars == <<walkVars, cmd, locs, at, rows, counts, exit>>
same == UNCHANGED <<fs, limits, cmd, locs>>
noWalk == UNCHANGED <<roots, turn, stack, d, walking>>

SkillFiles == {Append(s, SkillFile) : s \in fs.skills}
Result(status, score) == [status |-> status, score |-> score]
Unloadable == Result("error", 0)

\* What loading and scanning each bundle may give. At most one bundle of a file
\* system is out of the ordinary.
Outcomes ==
  LET all == fs.skills \cup SkillFiles
      usual == Result("pass", 1)
  IN {[b \in all |-> usual]} \cup
     {[b \in all |-> IF b = odd THEN r ELSE usual] :
        odd \in all, r \in {Unloadable, Result("fail", 3), Result("warn", 2), Result("pass", 0)}}

Resolves == cmd.installed \/ cmd.verb = "locations"
SelectionKnown == Known(cmd.filter.agents) /\ cmd.filter.scopes \subseteq ToSet(Scopes)

Init ==
  /\ fs \in FileSystems
  /\ cmd \in Commands
  /\ limits = IF cmd.verb = "locations" THEN DefaultLimits ELSE cmd.limits
  /\ locs \in IF Resolves /\ SelectionKnown THEN Resolve(cmd.env, cmd.filter, cmd.dir) ELSE {<<>>}
  /\ roots = <<>> /\ turn = 1 /\ stack = <<>> /\ d = NewDiscoverer /\ walking = "off"
  /\ at = "start" /\ rows = <<>> /\ counts = <<>> /\ exit = Running

Exit(code) == /\ exit' = code /\ at' = "exited" /\ UNCHANGED <<rows, counts>>

-----------------------------------------------------------------------------
\* An unknown format or severity, or a selection without --installed.
RejectFlags ==
  /\ at = "start" /\ cmd.fault = "flags"
  /\ Exit(3) /\ same /\ noWalk

\* resolve, for a scan of what is installed and for `locations`: no home directory
\* is a failure of the machine, an unknown agent or scope one of the command line.
AsksRegistry == at = "start" /\ cmd.fault # "flags" /\ Resolves
NoHome == AsksRegistry /\ cmd.env.home = {} /\ Exit(4) /\ same /\ noWalk
RejectSelection == AsksRegistry /\ cmd.env.home # {} /\ ~SelectionKnown /\ Exit(3) /\ same /\ noWalk

Started ==
  /\ at = "start" /\ cmd.fault # "flags"
  /\ Resolves => cmd.env.home # {} /\ SelectionKnown

ExistingRoots ==
  LET found == {i \in DOMAIN locs : locs[i].exists}
      nth == InOrder(found, {ij \in found \X found : ij[1] < ij[2]})
  IN [k \in DOMAIN nth |-> locs[nth[k]].path]

Requested == cmd.args \o (IF cmd.installed THEN ExistingRoots ELSE <<>>)

\* isSingleBundle: a file, a link, nothing at all, or a directory with a SKILL.md.
IsSingleBundle(p) ==
  \/ p \in DOMAIN fs.links
  \/ ~IsDir(EvalSymlinks(p))
  \/ IsBundleDir(EvalSymlinks(p))

Single == ~cmd.installed /\ Len(cmd.args) = 1 /\ IsSingleBundle(cmd.args[1])

NoLocations ==
  /\ Started /\ cmd.verb = "scan"
  /\ Requested = <<>>
  /\ Exit(3) /\ same /\ noWalk

ChooseSingle ==
  /\ Started /\ cmd.verb = "scan" /\ Single
  /\ at' = "single"
  /\ UNCHANGED <<rows, counts, exit>> /\ same /\ noWalk

ChooseMany ==
  /\ Started /\ cmd.verb = "scan" /\ ~Single /\ Requested # <<>>
  /\ roots' = Requested
  /\ at' = "many"
  /\ UNCHANGED <<turn, stack, d, walking, rows, counts, exit>> /\ same

-----------------------------------------------------------------------------
\* LoadBundle, for the path of a candidate or one named: a symlink is refused.
Load(p, outcome) ==
  IF p \notin DOMAIN fs.links /\ EvalSymlinks(p) \in DOMAIN outcome
  THEN outcome[EvalSymlinks(p)] ELSE Unloadable

\* A row of the report.
Row(c, agents, result) ==
  [path |-> c.path, real |-> c.real, also |-> c.also, agents |-> agents,
   status |-> result.status, score |-> result.score]

RefuseSingle ==
  /\ at = "single"
  /\ cmd.fault \in {"policy", "rules"} \/ \E outcome \in Outcomes : Load(cmd.args[1], outcome) = Unloadable
  /\ Exit(3) /\ same /\ noWalk

ScanSingle ==
  /\ at = "single" /\ cmd.fault \notin {"policy", "rules"}
  /\ LET p == cmd.args[1] IN
     \E outcome \in Outcomes :
       /\ Load(p, outcome) # Unloadable
       /\ rows' = <<Row([path |-> p, real |-> EvalSymlinks(p), also |-> {}], {}, Load(p, outcome))>>
  /\ at' = "write"
  /\ UNCHANGED <<counts, exit>> /\ same /\ noWalk

-----------------------------------------------------------------------------
\* A skill card describes one bundle.
RefuseCard ==
  /\ at = "many" /\ cmd.fault = "card"
  /\ Exit(3) /\ same /\ noWalk

Search ==
  /\ at = "many" /\ cmd.fault # "card"
  /\ StartWalk
  /\ at' = "walk"
  /\ UNCHANGED <<cmd, locs, rows, counts, exit>>

WalkOn == at = "walk" /\ Walk /\ UNCHANGED <<cmd, locs, at, rows, counts, exit>>

\* An unusable root, nothing found, or no policy or rules to scan by.
RefuseMany ==
  /\ at = "walk"
  /\ \/ walking = "failed"
     \/ walking = "done" /\ (Found = {} \/ cmd.fault \in {"policy", "rules"})
  /\ Exit(3) /\ same /\ noWalk

\* Mutant: only the path a row is listed under is looked at.
AttributedByPath(c) ==
  UNION {l.agents : l \in {x \in ToSet(locs) : x.exists /\ IsPrefix(x.path, c.path)}}

\* attributeAgents, for one result: the agents of every folder that one of its
\* paths lies in.
Attributed(c) ==
  UNION {l.agents : l \in {x \in ToSet(locs) : x.exists /\ \E p \in {c.path} \cup c.also : IsPrefix(x.path, p)}}

ScanAll ==
  /\ at = "walk" /\ walking = "done"
  /\ Found # {} /\ cmd.fault \notin {"policy", "rules"}
  /\ \E found \in Candidates, outcome \in Outcomes :
       rows' = [i \in DOMAIN found |->
                  LET c == found[i] IN Row(c, Attributed(c), Load(c.real, outcome))]
  /\ at' = "write"
  /\ UNCHANGED <<counts, exit>> /\ same /\ noWalk

-----------------------------------------------------------------------------
\* WorstFirst: errors, then fail, warn, pass; within a verdict the higher risk
\* first; then by path.
StatusRank(status) == CHOOSE n \in 0..3 : <<"pass", "warn", "fail", "error">>[n + 1] = status

\* Mutant: the risk decides before the verdict does, as in a single report.
WorseByRisk(r, s) ==
  \/ r.score > s.score
  \/ r.score = s.score /\ StatusRank(r.status) > StatusRank(s.status)
  \/ r.score = s.score /\ r.status = s.status /\ Less(r.path, s.path)

Worse(r, s) ==
  \/ StatusRank(r.status) > StatusRank(s.status)
  \/ r.status = s.status /\ r.score > s.score
  \/ r.status = s.status /\ r.score = s.score /\ Less(r.path, s.path)

WorstFirst(some) == InOrder(some, {rs \in some \X some : Worse(rs[1], rs[2])})

AgentsOf(all) == UNION {r.agents : r \in all}
InIdOrder(ids) == InOrder(ids, {ab \in ids \X ids : ab[1] < ab[2]})
Others(all) == {r \in all : r.agents = {}}

\* Mutant: a row of several agents is listed under the first of them.
AgentGroupsOfFirst(all) ==
  LET named == InIdOrder(AgentsOf(all))
      Group(a) == {r \in all : a \in r.agents /\ \A b \in r.agents : a <= b}
  IN [i \in DOMAIN named |-> Group(named[i])]
     \o (IF AgentsOf(all) = {} \/ Others(all) # {} THEN <<Others(all)>> ELSE <<>>)

\* agentGroups: the rows of each agent, agents in their order; then those of none.
\* One table of all when no row names an agent.
AgentGroups(all) ==
  LET named == InIdOrder(AgentsOf(all))
  IN [i \in DOMAIN named |-> {r \in all : named[i] \in r.agents}]
     \o (IF AgentsOf(all) = {} \/ Others(all) # {} THEN <<Others(all)>> ELSE <<>>)

\* MultiText without --verbose: the tables of rows, and the rows whose findings or
\* error follow; sorted before they are split. A set of one text.
MultiText ==
  {[tables |-> [k \in DOMAIN groups |-> WorstFirst(groups[k])],
    details |-> WorstFirst({r \in ToSet(rows) : r.status # "pass"})] :
     groups \in {AgentGroups(ToSet(rows))}}

-----------------------------------------------------------------------------
CreateFails == at = "write" /\ cmd.fault = "create" /\ Exit(3) /\ same /\ noWalk
WriteFails == at = "write" /\ cmd.fault = "write" /\ Exit(4) /\ same /\ noWalk

\* Mutant: a bundle that could not be loaded is only counted.
WorstLoaded == \E i \in DOMAIN rows : rows[i].status = "fail"

\* The verdict of Aggregate is fail: some bundle failed, or could not be loaded.
WorstFails == \E i \in DOMAIN rows : rows[i].status \in {"fail", "error"}

Finish ==
  /\ at = "write" /\ cmd.fault \notin {"create", "write"}
  /\ Exit(IF WorstFails THEN 1 ELSE 0) /\ same /\ noWalk

-----------------------------------------------------------------------------
\* `locations`: every folder of the registry, with the skills found below it by a
\* walk of its own, whose failure leaves a zero.
ListLocations ==
  /\ Started /\ cmd.verb = "locations"
  /\ at' = "list"
  /\ UNCHANGED <<rows, counts, exit>> /\ same /\ noWalk

Listed == locs[Len(counts) + 1]

ListMissing ==
  /\ at = "list" /\ Len(counts) < Len(locs) /\ ~Listed.exists
  /\ counts' = Append(counts, 0)
  /\ UNCHANGED <<at, rows, exit>> /\ same /\ noWalk

OpenListed ==
  /\ at = "list" /\ Len(counts) < Len(locs) /\ Listed.exists
  /\ at' = "count"
  /\ roots' = <<Listed.path>> /\ turn' = 1 /\ stack' = <<>> /\ d' = NewDiscoverer /\ walking' = "on"
  /\ UNCHANGED <<rows, counts, exit>> /\ same

CountOn == at = "count" /\ Walk /\ UNCHANGED <<cmd, locs, at, rows, counts, exit>>

CountListed ==
  /\ at = "count" /\ walking \in {"failed", "done"}
  /\ \E found \in Candidates :
       counts' = Append(counts, IF walking = "done" THEN Len(found) ELSE 0)
  /\ at' = "list"
  /\ UNCHANGED <<rows, exit>> /\ same /\ noWalk

ListDone == at = "list" /\ Len(counts) = Len(locs) /\ Exit(0) /\ same /\ noWalk

Exited == at = "exited" /\ UNCHANGED vars

Next ==
  \/ RejectFlags \/ NoHome \/ RejectSelection \/ NoLocations \/ ChooseSingle \/ ChooseMany
  \/ RefuseSingle \/ ScanSingle
  \/ RefuseCard \/ Search \/ WalkOn \/ RefuseMany \/ ScanAll
  \/ CreateFails \/ WriteFails \/ Finish
  \/ ListLocations \/ ListMissing \/ OpenListed \/ CountOn \/ CountListed \/ ListDone
  \/ Exited

\* One process that runs until it ends.
Spec == Init /\ [][Next]_vars /\ WF_vars(Next)

-----------------------------------------------------------------------------
(***************************************************************************)
(* What a folder holds, said without a walk: the directories below it that *)
(* no skipped name hides and that are inside no bundle, and the bundles    *)
(* among them or linked to from them. A link whose target cannot be reached *)
(* counts as dangling.                                                      *)
(***************************************************************************)
Below(root) ==
  LET top == EvalSymlinks(root)
  IN {u \in fs.dirs :
        /\ IsPrefix(top, u)
        /\ \A i \in (Len(top) + 1)..Len(u) : u[i] \notin Skipped
        /\ \A v \in fs.skills : ~(IsPrefix(top, v) /\ IsStrictPrefix(v, u))}

\* The places where a root leads to a bundle: [spot, real].
Places(root) ==
  {[spot |-> u, real |-> u] : u \in Below(root) \cap fs.skills}
  \cup {[spot |-> l, real |-> fs.links[l]] :
          l \in {x \in DOMAIN fs.links : Front(x) \in Below(root) \ fs.skills /\ IsBundleDir(fs.links[x])}}
  \cup {[spot |-> p, real |-> p] : p \in {EvalSymlinks(root)} \cap SkillFiles}

Shown(real) == \E i \in DOMAIN rows : rows[i].real = real /\ rows[i].status \in {"pass", "warn"}

Limited == \E n \in Notes : n.kind \in {"depth", "bundles"}
UnreadableAbove(p) == \E n \in Notes : n.kind = "unreadable" /\ IsPrefix(EvalSymlinks(n.path), p)
Complete == ~Limited /\ \A n \in Notes : n.kind # "unreadable"

\* Exit code 0 is an audit: every bundle that the named paths and the installed
\* folders lead to was loaded and does not fail, unless the report notes why it was
\* not looked at -- a directory above it that could not be read, or a limit.
\* (scan_many.go: "1 when any bundle fails or could not be loaded (fail-closed), 3
\* when nothing was found".)
AuditFailsClosed ==
  (exit = 0 /\ cmd.verb = "scan") =>
    /\ rows # <<>>
    /\ \A root \in ToSet(Requested) : \A p \in Places(root) :
         Shown(p.real) \/ Limited \/ UnreadableAbove(p.spot)

\* The folders that each agent reads under the command's selection.
Chosen == IF cmd.filter.agents = <<>> THEN {a.id : a \in ToSet(Registry)} ELSE ToSet(cmd.filter.agents)
Folders ==
  [id \in Chosen |->
     UNION {FoldersOf(a, cmd.env, cmd.filter, cmd.dir) : a \in {x \in ToSet(Registry) : x.id = id}}]

\* The set of bundles does not depend on the order of the roots or on how links
\* cross: when no limit or unreadable directory cut the walk short, it is exactly
\* what the folders hold, once each, in the order of the paths, every path of a
\* row leads to that row's bundle, and the first of them is primary. (discover.go:
\* "Discover finds every skill bundle at or below the given roots".)
RowsAreTheFolders ==
  (at = "write" /\ ~Single) =>
    /\ \A i, j \in DOMAIN rows : i < j => rows[i].real # rows[j].real /\ Less(rows[i].path, rows[j].path)
    /\ \A i \in DOMAIN rows :
         /\ \A p \in {rows[i].path} \cup rows[i].also : EvalSymlinks(p) = rows[i].real
         /\ \A p \in rows[i].also : Less(rows[i].path, p)
    /\ LET real == {rows[i].real : i \in DOMAIN rows}
           held == {p.real : p \in UNION {Places(r) : r \in ToSet(roots)}}
       IN real \subseteq held /\ (Complete => real = held)

\* A folder that a requested path lies in, by its name, is one whose walk comes by
\* there: it is not behind a link, inside a bundle or below a skipped name.
ComesBy(folder, p) == IsPrefix(folder, p) => EvalSymlinks(p) \in Below(folder)

AgentsAreTold ==
  (at = "write" /\ cmd.installed) =>
    LET folders == Folders
        all == UNION {folders[id] : id \in Chosen}
        held == [p \in all |-> IF IsDir(EvalSymlinks(p)) THEN {q.real : q \in Places(p)} ELSE {}]
        named == {q.real : q \in UNION {Places(a) : a \in ToSet(cmd.args)}}
        asked == [q \in ToSet(roots) |-> {p.real : p \in Places(q)}]
    IN \A i \in DOMAIN rows :
         LET holders == {id \in Chosen : \E p \in folders[id] : rows[i].real \in held[p]}
             ways == {q \in ToSet(roots) : rows[i].real \in asked[q]}
             byName == {id \in Chosen : \E p \in folders[id] : \E q \in ways : ~ComesBy(p, q)}
         IN /\ rows[i].agents # {} \/ rows[i].real \in named
            /\ rows[i].agents \subseteq holders \cup byName
            /\ (Complete /\ \A q \in ways : EvalSymlinks(q) = q) => holders \subseteq rows[i].agents

Listing == at = "exited" /\ cmd.verb = "locations" /\ exit = 0
FoldersAreListed == Listing => {l.path : l \in ToSet(locs)} = UNION {Folders[id] : id \in Chosen}

\* No walk of this file system meets a limit or an unreadable directory.
WithinLimits ==
  fs.closed = {} /\ Cardinality(fs.skills) <= limits.bundles /\ \A u \in fs.dirs : Len(u) <= limits.depth
SkillsAreCounted ==
  (Listing /\ WithinLimits) => \A i \in DOMAIN locs :
    counts[i] = IF locs[i].exists THEN Cardinality({q.real : q \in Places(locs[i].path)}) ELSE 0

\* Which agents a row of an installed scan names, bundle by bundle, with the two
\* cases in which attributeAgents, which compares paths by name, gets it wrong
\* against commands.go:75. A row names no agent that reads no folder holding the
\* bundle, but for an agent in whose folder a requested path that leads to the
\* bundle is by its name alone. After a complete walk it names every agent that
\* reads a folder holding the bundle, unless a requested path that leads to it is
\* behind a link: then nothing is claimed of who is missing. Only a path named
\* beside --installed may have no agent. `locations` lists the folders that the
\* agents read and counts the skills a scan of each would find.
EachAgentIsTold == AgentsAreTold /\ FoldersAreListed /\ SkillsAreCounted

\* What the text of a scan of many says agrees with the exit code, and hides
\* nothing: every bundle is in a table, under every agent that loads it; one that
\* failed or could not be loaded is told in detail, whoever loads it, and stands
\* above every bundle of its table that did not.
ReportHidesNothing ==
  (at = "exited" /\ roots # <<>> /\ rows # <<>>) =>
    \A text \in MultiText :
    LET bad == {r \in ToSet(rows) : r.status \in {"fail", "error"}}
        Table(k) == text.tables[k]
    IN /\ exit \in {0, 1} => (exit = 1 <=> bad \cap ToSet(text.details) # {})
       /\ bad \subseteq ToSet(text.details)
       /\ \A r \in ToSet(rows) :
            Cardinality({k \in DOMAIN text.tables : r \in ToSet(Table(k))})
              = IF r.agents = {} THEN 1 ELSE Cardinality(r.agents)
       /\ \A k \in DOMAIN text.tables : \A i, j \in DOMAIN Table(k) :
            i < j => Table(k)[i] \in bad \/ Table(k)[j] \notin bad

\* The walk ends although links may form a cycle.
Terminates == <>(at = "exited")
=============================================================================
