------------------------------ MODULE MCAudit ------------------------------
(* File systems and command lines for model checking Audit. Name 0 is       *)
(* SKILL.md, 9 a vendored tree, 5 nothing, 3 a link beside the folders 1, 2. *)
EXTENDS Audit

Dirs == {<<>>, <<1>>, <<1, 1>>, <<1, 2>>, <<1, 2, 1>>, <<1, 9>>, <<1, 9, 1>>, <<2>>, <<2, 1>>}

\* No link; one to a folder, as agents' directories are shared; one to a bundle,
\* from inside another folder, from beside; two that meet; a cycle; a dangling one.
To(l, t) == l :> t
LinkSets ==
  {<<>>, To(<<3>>, <<1>>), To(<<3>>, <<1, 1>>), To(<<2, 2>>, <<1, 1>>),
   To(<<2, 2>>, <<1, 2, 1>>), To(<<2, 2>>, <<1>>), To(<<1, 3>>, <<2>>) @@ To(<<2, 2>>, <<1>>),
   To(<<3>>, <<2>>) @@ To(<<2, 2>>, <<1, 1>>), To(<<3>>, <<2>>) @@ To(<<2, 2>>, <<2>>),
   To(<<2, 2>>, <<5>>)}

MCFileSystems ==
  {f \in [dirs : {Dirs},
          skills : {{<<1, 9, 1>>} \cup s : s \in SUBSET {<<1, 1>>, <<1, 2>>, <<1, 2, 1>>, <<2, 1>>}},
          closed : {{}, {<<1, 2>>}, {<<2>>}},
          links : LinkSets] : f.skills \cap f.closed = {}}

Text(p) == [var |-> NoVar, text |-> {p}]
Var(v, default) == [var |-> v, text |-> default]
At(scope, path) == [scope |-> scope, path |-> path, walkUp |-> FALSE, os |-> {}, legacy |-> FALSE]

\* Four agents: a folder of the home directory that two read, one of them no longer
\* as its vendor says; one that a variable moves; one that is often a link; project
\* entries of which one walks up; a folder of one system; one that is not there.
MCRegistry ==
  <<[id |-> 1, source |-> "a", locations |->
       <<At("user", <<Var("A", {<<Tilde>>}), Text(<<1>>)>>),
         [At("project", <<Text(<<1>>)>>) EXCEPT !.walkUp = TRUE]>>],
    [id |-> 2, source |-> "b", locations |->
       <<At("user", <<Text(<<Tilde, 2>>)>>), At("project", <<Text(<<1>>)>>)>>],
    [id |-> 3, source |-> "c", locations |->
       <<At("user", <<Text(<<Tilde, 3>>)>>), At("plugin", <<Var("C", {}), Text(<<2>>)>>),
         [At("user", <<Text(<<Tilde, 1>>)>>) EXCEPT !.legacy = TRUE]>>],
    [id |-> 4, source |-> "d", locations |->
       <<[At("admin", <<Text(<<5>>)>>) EXCEPT !.os = {"linux", "darwin"}],
         [At("admin", <<Text(<<1, 2>>)>>) EXCEPT !.os = {"darwin"}]>>]>>

Machine == [home |-> {<<>>}, vars |-> [A |-> {}, C |-> {}], os |-> "linux", repos |-> {<<1>>, <<2, 2>>}]
All == [agents |-> <<>>, scopes |-> {}]

MCDefaultLimits == [depth |-> 3, bundles |-> 9]
Limits == {MCDefaultLimits, [depth |-> 1, bundles |-> 9], [depth |-> 3, bundles |-> 1]}

Named(args, fault) ==
  [verb |-> "scan", args |-> args, installed |-> FALSE, filter |-> All, dir |-> <<2>>, env |-> Machine,
   limits |-> MCDefaultLimits, fault |-> fault]
Installed(args, filter, dir, env) ==
  [Named(args, "none") EXCEPT !.installed = TRUE, !.filter = filter, !.dir = dir, !.env = env]
List(filter, dir, env) == [Installed(<<>>, filter, dir, env) EXCEPT !.verb = "locations", !.installed = FALSE]

Moved == [Machine EXCEPT !.vars = [A |-> {<<Tilde, 1>>}, C |-> {<<1>>}]]

Args ==
  {<<p>> : p \in {<<>>, <<1>>, <<2>>, <<3>>, <<1, 1>>, <<1, 1, 0>>, <<5>>}}
  \cup {<<<<1>>, <<2>>>>, <<<<2>>, <<1>>>>, <<<<1>>, <<1, 2>>>>, <<<<3>>, <<1>>>>, <<<<1>>, <<1, 1, 0>>>>,
        <<<<2>>, <<5>>>>}
Faults == {"flags", "card", "policy", "create", "write"}

Searches ==
  {Named(a, "none") : a \in Args}
  \cup {Installed(<<>>, All, <<2>>, Machine), Installed(<<<<1, 1>>>>, All, <<5>>, Machine),
        Installed(<<<<3>>>>, [All EXCEPT !.agents = <<1>>], <<5>>, Machine),
        Installed(<<>>, All, <<5>>, Moved)}

MCCommands ==
  {[c EXCEPT !.limits = l] : c \in Searches, l \in Limits}
  \cup {Named(<<p>>, f) : p \in {<<1>>, <<1, 1>>}, f \in Faults}
  \cup {Installed(<<>>, [All EXCEPT !.agents = <<2, 1>>], <<1>>, Machine),
        Installed(<<<<2>>>>, [All EXCEPT !.scopes = {"admin"}], <<5>>, [Machine EXCEPT !.os = "darwin"]),
        Installed(<<>>, [All EXCEPT !.agents = <<4>>], <<5>>, Machine),
        Installed(<<>>, [All EXCEPT !.agents = <<7>>], <<5>>, Machine),
        Installed(<<>>, [All EXCEPT !.scopes = {"users"}], <<5>>, Machine),
        Installed(<<>>, All, <<5>>, [Machine EXCEPT !.home = {}])}
  \cup {List(All, <<1, 2, 1>>, Machine), List([All EXCEPT !.agents = <<3>>], <<2>>, Moved)}
=============================================================================
