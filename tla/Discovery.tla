----------------------------- MODULE Discovery -----------------------------
(***************************************************************************)
(* skill.Discover (pkg/skill/discover.go): the bundles below some roots,   *)
(* found by a depth-first walk that reads one directory entry per step.    *)
(*                                                                         *)
(* A path is a sequence of names, a name a number: paths are ordered as    *)
(* their strings are. A file system is a record                            *)
(*   dirs    the real directories                                          *)
(*   skills  those that hold a SKILL.md which is no directory              *)
(*   closed  those that can be neither read nor searched                   *)
(*   links   from the path of a symlink to the path it resolves to         *)
(* It does not change during a walk.                                       *)
(***************************************************************************)
EXTENDS Integers, Sequences, SequencesExt, FiniteSets

CONSTANTS
  Skipped,     \* names in skipNames or vendoredDirs
  SkillFile    \* the name of SKILL.md, of which a path may be a root

VARIABLES
  fs,       \* the file system
  roots,    \* the arguments, as a sequence of paths
  limits,   \* DiscoverOptions: [depth, bundles]
  turn,     \* the root whose turn it is
  stack,    \* the calls of walk that are open: frames [path, real, root, depth, rest]
  d,        \* the discoverer
  walking   \* "off", "on", "failed" (an unusable root) or "done"

walkVars == <<fs, roots, limits, turn, stack, d, walking>>

\* Paths compare as strings: a prefix first, then by the first name that differs.
Less(p, q) ==
  \/ IsStrictPrefix(p, q)
  \/ \E i \in DOMAIN p \cap DOMAIN q :
       p[i] < q[i] /\ \A j \in 1..(i - 1) : p[j] = q[j]

\* The elements of a set, sorted by a strict order on them: at each place the one
\* that so many come before.
InOrder(S, before) ==
  [k \in 1..Cardinality(S) |->
     CHOOSE x \in S : Cardinality({y \in S : <<y, x>> \in before}) = k - 1]

Searchable(p) == \A c \in fs.closed : ~IsPrefix(c, p)
IsDir(p) == p \in fs.dirs /\ (p = <<>> \/ Searchable(Front(p)))
IsBundleDir(p) == p \in fs.skills /\ Searchable(p)
IsSkillFile(p) == p # <<>> /\ Last(p) = SkillFile /\ IsBundleDir(Front(p))

\* filepath.EvalSymlinks, name by name: where the first n names of a path lead.
Resolving(p) ==
  LET at[n \in 0..Len(p)] ==
        IF n = 0 THEN <<>>
        ELSE LET q == Append(at[n - 1], p[n]) IN IF q \in DOMAIN fs.links THEN fs.links[q] ELSE q
  IN at
EvalSymlinks(p) == Resolving(p)[Len(p)]

Entries(dir) == {Last(p) : p \in {q \in fs.dirs \cup DOMAIN fs.links : q # <<>> /\ Front(q) = dir}}

-----------------------------------------------------------------------------
NewDiscoverer == [order |-> <<>>, reach |-> <<>>, errs |-> {}, seen |-> {},
                  pruned |-> {}, stopped |-> FALSE]

Note(path, kind) == [path |-> path, kind |-> kind]

\* add: reach[i] is what leads to the bundle order[i]. A new bundle past the cap
\* stops the walk, which is noted once.
Add(v, r) ==
  IF \E i \in DOMAIN v.order : v.order[i] = r.real
  THEN [v EXCEPT !.reach = [i \in DOMAIN @ |-> IF v.order[i] = r.real THEN Append(@[i], r) ELSE @[i]]]
  ELSE IF Len(v.order) >= limits.bundles
  THEN [v EXCEPT !.stopped = TRUE,
                 !.errs = IF v.stopped THEN @ ELSE @ \cup {Note(r.root, "bundles")}]
  ELSE [v EXCEPT !.order = Append(@, r.real), !.reach = Append(@, <<r>>)]

Reach(path, real, root, via, file) ==
  [path |-> path, real |-> real, root |-> root, via |-> via, file |-> file]

Frame(path, real, root, depth) ==
  [path |-> path, real |-> real, root |-> root, depth |-> depth, rest |-> Entries(real)]

\* walk up to its loop: what it leaves in the discoverer, and the frames it opens.
Enter(path, real, root) ==
  IF d.stopped \/ real \in d.seen THEN d
  ELSE LET v == [d EXCEPT !.seen = @ \cup {real}]
       IN IF IsBundleDir(real) THEN Add(v, Reach(path, real, root, FALSE, FALSE))
          ELSE IF Searchable(real) THEN v
          ELSE [v EXCEPT !.errs = @ \cup {Note(path, "unreadable")}]

Opened(path, real, root, depth) ==
  IF d.stopped \/ real \in d.seen \/ IsBundleDir(real) \/ ~Searchable(real) THEN <<>>
  ELSE <<Frame(path, real, root, depth)>>

-----------------------------------------------------------------------------
\* Discover is called.
StartWalk ==
  /\ walking = "off"
  /\ walking' = "on" /\ turn' = 1 /\ stack' = <<>> /\ d' = NewDiscoverer
  /\ UNCHANGED <<fs, roots, limits>>

\* The loop over the roots ends when a directory's walk was stopped by the cap.
Broken == d.stopped /\ turn > 1 /\ IsDir(EvalSymlinks(roots[turn - 1]))
BetweenRoots == walking = "on" /\ stack = <<>>
RootTurn == BetweenRoots /\ turn <= Len(roots) /\ ~Broken

RootMissing ==
  /\ RootTurn
  /\ LET real == EvalSymlinks(roots[turn]) IN ~IsDir(real) /\ ~IsSkillFile(real)
  /\ walking' = "failed"
  /\ UNCHANGED <<fs, roots, limits, turn, stack, d>>

RootFile ==
  /\ RootTurn
  /\ LET root == roots[turn]
         real == EvalSymlinks(root)
     IN /\ IsSkillFile(real)
        /\ d' = Add(d, Reach(root, real, root, FALSE, TRUE))
  /\ turn' = turn + 1
  /\ UNCHANGED <<fs, roots, limits, stack, walking>>

RootDir ==
  /\ RootTurn
  /\ LET root == roots[turn]
         real == EvalSymlinks(root)
     IN /\ IsDir(real)
        /\ d' = Enter(root, real, root)
        /\ stack' = Opened(root, real, root, 0)
  /\ turn' = turn + 1
  /\ UNCHANGED <<fs, roots, limits, walking>>

-----------------------------------------------------------------------------
Top == Last(stack)
NextName == CHOOSE n \in Top.rest : \A m \in Top.rest : n <= m
ChildPath == Append(Top.path, NextName)
ChildReal == Append(Top.real, NextName)

\* The loop of walk takes the next entry, unless the cap was hit.
TakesEntry == walking = "on" /\ stack # <<>> /\ ~d.stopped /\ Top.rest # {}
Taken == Append(Front(stack), [Top EXCEPT !.rest = @ \ {NextName}])

\* Mutant: a link to another directory is followed, whether or not the walk is in
\* that directory already: it is read in place of the rest of the one at hand.
LinkFollowed ==
  /\ TakesEntry /\ ChildReal \in DOMAIN fs.links
  /\ LET target == fs.links[ChildReal] IN
       IF IsDir(target) /\ ~IsBundleDir(target)
       THEN stack' = Append(Front(stack), Frame(target, target, Top.root, Top.depth)) /\ d' = d
       ELSE /\ stack' = Taken
            /\ d' = IF IsDir(target) THEN Add(d, Reach(ChildPath, target, Top.root, TRUE, FALSE)) ELSE d
  /\ UNCHANGED <<fs, roots, limits, turn, walking>>

\* symlink: followed when its target directly is a bundle; a link to another
\* directory is noted, any other is ignored as a file is.
Link ==
  /\ TakesEntry /\ ChildReal \in DOMAIN fs.links
  /\ LET target == fs.links[ChildReal] IN
       d' = IF ~IsDir(target) THEN d
            ELSE IF IsBundleDir(target) THEN Add(d, Reach(ChildPath, target, Top.root, TRUE, FALSE))
            ELSE [d EXCEPT !.errs = @ \cup {Note(ChildPath, "not followed")}]
  /\ stack' = Taken
  /\ UNCHANGED <<fs, roots, limits, turn, walking>>

SkipName ==
  /\ TakesEntry /\ ChildReal \in fs.dirs /\ NextName \in Skipped
  /\ stack' = Taken
  /\ UNCHANGED <<fs, roots, limits, turn, d, walking>>

Prune ==
  /\ TakesEntry /\ ChildReal \in fs.dirs /\ NextName \notin Skipped
  /\ Top.depth + 1 > limits.depth
  /\ d' = [d EXCEPT !.pruned = @ \cup {Top.root}]
  /\ stack' = Taken
  /\ UNCHANGED <<fs, roots, limits, turn, walking>>

Descend ==
  /\ TakesEntry /\ ChildReal \in fs.dirs /\ NextName \notin Skipped
  /\ Top.depth + 1 <= limits.depth
  /\ d' = Enter(ChildPath, ChildReal, Top.root)
  /\ stack' = Taken \o Opened(ChildPath, ChildReal, Top.root, Top.depth + 1)
  /\ UNCHANGED <<fs, roots, limits, turn, walking>>

\* The loop ends, or returns because the cap was hit.
Leave ==
  /\ walking = "on" /\ stack # <<>> /\ (d.stopped \/ Top.rest = {})
  /\ stack' = Front(stack)
  /\ UNCHANGED <<fs, roots, limits, turn, d, walking>>

EndWalk ==
  /\ BetweenRoots /\ (turn > Len(roots) \/ Broken)
  /\ walking' = "done"
  /\ UNCHANGED <<fs, roots, limits, turn, stack, d>>

Walk == RootMissing \/ RootFile \/ RootDir \/ Link \/ SkipName \/ Prune \/ Descend \/ Leave \/ EndWalk

-----------------------------------------------------------------------------
\* Mutant: the path seen first is primary.
PrimaryFirstSeen(all) == all[1]

\* result, for one bundle: the least path is primary; of equal ones the first,
\* since the sort is an insertion sort for so few.
Primary(all) ==
  all[CHOOSE i \in DOMAIN all :
        \A j \in DOMAIN all : Less(all[i].path, all[j].path) \/ (all[i].path = all[j].path /\ i <= j)]

Candidate(all) ==
  LET p == Primary(all)
  IN [path |-> p.path, real |-> p.real, root |-> p.root, file |-> p.file,
      also |-> {all[i].path : i \in DOMAIN all} \ {p.path}]

\* What Discover returns, sorted by path -- a set of one sequence --, and everything
\* met on the way.
Found == {Candidate(d.reach[i]) : i \in DOMAIN d.order}
ByPath(found) == InOrder(found, {ab \in found \X found : Less(ab[1].path, ab[2].path)})
Candidates == {ByPath(found) : found \in {Found}}
Notes == d.errs \cup {Note(r, "depth") : r \in d.pruned}
=============================================================================
