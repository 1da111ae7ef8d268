------------------------------ MODULE MCReview ------------------------------
(***************************************************************************)
(* Bounds for Review: two worlds, one about the front matter of SKILL.md,   *)
(* one about the files of a bundle and what is in them.                     *)
(***************************************************************************)
EXTENDS Review

MCLanguage == [n \in {"run.sh"} |-> "bash"]

Says(key, marks) == [Field(key, "plain") EXCEPT !.marks = marks]
T(marks) == [key |-> NoKey, value |-> "text", indented |-> FALSE, marks |-> marks]
Child == [T({}) EXCEPT !.indented = TRUE]

Line(value, indented) == [key |-> NoKey, value |-> value, indented |-> indented, marks |-> {}]
Gap == Line("blank", FALSE)
Remark == Line("comment", FALSE)
Item == Line("item", FALSE)

MCFieldLines ==
  {Says("name", {"curl"}), Field("tools", "empty"), Field("tools", "close"), Child,
   Says("signature", {"ok"}), Field("Signature", "plain"), Field("signature", "empty"),
   Field("content_hash", "open"), Field("note", "open")}

MCTextLines == {Delimiter, T({}), T({"fence"}), T({"key", "curl"}), T({"## heading"})}

\* Front matter of up to two lines; the body has a heading, a finding and a rule.
Skill(front, body) == <<Delimiter>> \o front \o <<Delimiter>> \o body
Bare == <<T({"## heading"}), T({"curl"})>>
Fronts == UNION {[1..n -> MCFieldLines] : n \in 0..2}
FrontWorlds ==
  {[dir |-> SkillMD :> File(Skill(front, Bare)), packs |-> <<>>, edits |-> 3 - Max({1, Len(front)})] : front \in Fronts}

\* Values of several lines, in the ways YAML allows.
Values ==
  {<<Field("note", "block"), Child, Says("name", {"curl"})>>, <<Field("note", "block"), Child, Gap, Child>>,
   <<Field("note", "keep"), Child, Gap>>, <<Field("note", "keep"), Child, Gap, Remark>>,
   <<Field("note", "plain"), Gap, Child>>, <<Field("note", "plain"), Remark, Child>>,
   <<Field("tools", "empty"), Item, Item>>, <<Field("tools", "empty"), Remark, Child>>,
   <<Field("tools", "empty"), Child, Item>>, <<Field("note", "block"), Line("comment", TRUE), Child>>,
   <<Field("note", "block"), Line("blank", TRUE), Child>>, <<Remark, Says("name", {"curl"}), Gap, Field("tools", "plain")>>}
ValueWorlds == {[dir |-> SkillMD :> File(Skill(front, Bare)), packs |-> <<>>, edits |-> 1] : front \in Values}

\* A bundle with every role, a signature from before, files the OMS manifest
\* does not list, and texts that capping, carving out and fencing act on.
Prose == <<T({"# heading", "license"}), T({"curl"}), T({"curl", "ok"}), T({"fence"}), T({"key", "curl"}), T({"fence"}),
           T({"## heading"}), T({"never"}), T({"key", "curl"}), T({"# heading"}), T({"key"})>>
Rich ==
  SkillMD :> File(Skill(<<Says("name", {"key"})>>, Prose)) @@
  <<"run.sh">> :> File(<<T({"curl"}), T({"ok"}), T({"curl", "key"})>>) @@
  <<"docs", "guide.md">> :> File(<<T({"## heading", "license"}), T({"curl"}), T({"fence"}), T({"curl", "key"})>>) @@
  <<"data.json">> :> File(<<T({"key"}), T({"mcServers"})>>) @@
  <<"tool">> :> File(<<T({"#!bash"}), T({"curl"})>>) @@
  <<".github", "run.sh">> :> File(<<T({"curl"})>>) @@
  <<"skill.oms.sig">> :> File(<<>>) @@
  <<"sub", ".git", "run.sh">> :> File(<<T({"curl"})>>)
RichWorlds == {[dir |-> Rich, packs |-> <<>>, edits |-> 1]}

\* A small directory, with every pack of one rule that loads among those written here.
One == [Nothing EXCEPT !.mark = {"curl"}]
Flat == {Nothing, One, [One EXCEPT !.ok = FALSE], [Nothing EXCEPT !.confidence = 90]}
NotNothing == [Nothing EXCEPT !.not = <<Nothing>>]
Nested ==
  UNION {{[Nothing EXCEPT !.any = <<s>>], [Nothing EXCEPT !.all = <<One, s>>],
          [Nothing EXCEPT !.not = <<s>>], [One EXCEPT !.any = <<s>>]} :
           s \in {One, [One EXCEPT !.ok = FALSE], Nothing, NotNothing}}
MCCondLevels == <<Flat, {NotNothing}, Nested>>

Effects ==
  {{}} \cup {{[max |-> e[1], layers |-> e[2]]} :
               e \in {<<"low", {}>>, <<"low", {"code"}>>, <<"low", {"all"}>>, <<"lowest", {}>>, <<"", {}>>}}

Written ==
  [id : {"", "fetch"}, kind : {"", "context", "contexts"}, scope : {"", "file", "section", "page"},
   effect : Effects, paths : {{}, {<<"run.sh">>}}, patternsOk : {TRUE},
   severity : {"", "high"}, confidence : {0, 30, 50}, layer : {"code"}, languages : {{}},
   targets : {{}, {"body"}, {"scripts"}, {"refs", "configs"}}, suppress : {{}, {"ok"}}, match : Flat \cup Nested]

Small == SkillMD :> File(Skill(<<>>, <<T({"curl"}), T({"curl", "ok"})>>)) @@ <<"run.sh">> :> File(<<T({"curl"})>>)
PackWorlds ==
  {[dir |-> Small, packs |-> <<[name |-> "p", apiVersion |-> APIVersion, rules |-> <<rd>>]>>, edits |-> 0] :
     rd \in {rd \in Written : Compiled(rd) # {}}}

MCWorlds == FrontWorlds \cup ValueWorlds \cup RichWorlds \cup PackWorlds

MCAdditions ==
  {[path |-> <<".gitignore">>, entry |-> File(<<T({"curl"})>>)],
   [path |-> <<"blob">>, entry |-> File(<<T({"curl"})>>)],
   [path |-> <<".claude", "blob">>, entry |-> File(<<T({"curl"})>>)],
   [path |-> <<"README.md">>, entry |-> File(<<T({"curl"}), T({"NUL"})>>)],
   [path |-> <<"README.md">>, entry |-> File(<<T({"curl"}), T({"never"}), T({"key"})>>)],
   [path |-> <<"docs", ".github", "run.sh">>, entry |-> File(<<T({"curl"})>>)],
   [path |-> <<"more.sh">>, entry |-> [type |-> "symlink", text |-> <<>>]]}

MCPathOrder ==
  << <<".claude", "blob">>, <<".github", "run.sh">>, <<".gitignore">>, <<"README.md">>, SkillMD,
     <<"blob">>, <<"data.json">>, <<"docs", ".github", "run.sh">>, <<"docs", "guide.md">>,
     <<"more.sh">>, <<"run.sh">>, <<"sub", ".git", "run.sh">>, <<"tool">> >>

RuleOf(id, layer, severity, confidence, targets, match, suppress) ==
  [id |-> id, layer |-> layer, severity |-> severity, confidence |-> confidence,
   targets |-> targets, languages |-> {}, match |-> match, suppress |-> suppress]

MCRules == <<
  RuleOf("fetch", "code", High, 80, {"body", "scripts"}, Leaf("curl", 0, FALSE), {"ok"}),
  RuleOf("steal", "exfil", Critical, 70, {}, Tree("all", <<Leaf("key", 0, FALSE), Leaf("curl", 90, FALSE)>>), {}),
  RuleOf("claim", "text", Medium, 55, {"body"}, Tree("any", <<Leaf("key", 40, FALSE), Leaf("never", 60, TRUE)>>), {}),
  RuleOf("header", "text", Low, 60, {"body"}, Tree("not", <<Leaf("license", 0, FALSE)>>), {}) >>

MCTreeLevels ==
  LET flat == {compileCond(cd) : cd \in Flat} \cup {Leaf(mark, 0, FALSE) : mark \in {"curl", "key", "license", "ok"}}
              \cup {Leaf("curl", 90, FALSE), Leaf("key", 40, FALSE), Leaf("never", 60, TRUE)}
  IN <<flat, {compileCond(NotNothing)} \cup {MCRules[n].match : n \in 2..4},
       {compileCond(cd) : cd \in Nested}>>

ContextOf(scope, targets, match, paths, max, layers) ==
  [scope |-> scope, targets |-> targets, languages |-> {}, match |-> match, paths |-> paths,
   max |-> max, layers |-> layers]

MCContexts ==
  {ContextOf("section", {"body"}, Leaf("license", 0, FALSE), {}, Low, {"code"}),
   ContextOf("line", {}, Leaf("ok", 0, FALSE), {}, High, {}),
   ContextOf("line", {}, Leaf("key", 0, FALSE), {}, Medium, {}),
   ContextOf("file", {"scripts"}, PathOnly, {<<"run.sh">>}, Info, {"code", "exfil"}),
   ContextOf("file", {"manifest"}, Leaf("ok", 0, FALSE), {}, Info, {})}

MCBuiltin == << [rules |-> MCRules, contexts |-> MCContexts] >>

MCPolicy ==
  [failOn |-> High, warnOn |-> Medium,
   waivers |-> {[pinned |-> {}, bundle |-> {}, rules |-> {"claim"}, live |-> TRUE, path |-> SkillMD],
                [pinned |-> {}, bundle |-> {}, rules |-> {"fetch"}, live |-> FALSE, path |-> <<>>]}]

\* Policy files: waivers, keys and identity rules one at a time; keys in pairs;
\* and everything else in one document or two.
Setting(key, value) == [k \in {key} |-> value]
Waivers ==
  [rule : {"", "r"}, path : {<<>>, <<"f">>, BadGlob}, reason : {"", " ", "why"},
   expires : {{}, {BadDay}, {5}, {6}}, bundle : {"", "n"}, root : {"", "sha256:1", "sha256:x"}]
KeyText(text, bytes, p256) == [text |-> text, bytes |-> bytes, p256 |-> p256]
Keys ==
  [keyid : {"", "k1", "k2"}, algorithm : {"", " Ed25519", "ECDSA-P256", "rsa"}, identity : {""},
   key : {KeyText("blank", 0, FALSE), KeyText("broken", 0, FALSE), KeyText("base64", 31, FALSE),
          KeyText("base64", 32, FALSE), KeyText("base64", 91, TRUE)}]
Patterns == UNION {[1..n -> {"a", "b", "*"}] : n \in 0..5} \cup {<<"?">>, <<"a", "[">>}
MCIdentities == UNION {[1..n -> {"a", "b"}] : n \in 1..5}
Documents ==
  {<<>>, Setting("failon", "low"), Setting("trust.revoked", <<"k1">>), Setting("attestation.required", TRUE)}
  \cup {Setting(key, said) : key \in {"fail_on", "warn_on"}, said \in {"", "low", "severe"}}
  \cup {Setting(key, <<"x">>) : key \in Unread}
  \cup {Setting("trust.roots", <<[pem |-> pem, path |-> path]>>) : pem, path \in {"", "x"}}
  \cup {Setting("trust.log_keys", <<[keyid |-> "", key |-> key]>>) : key \in {"", "x"}}

MCPolicyFiles ==
  {<<>>} \cup {<<d>> : d \in Documents} \cup {<<d, e>> : d, e \in Documents} \cup
  {<<Setting("waivers", <<w>>)>> : w \in Waivers} \cup
  {<<Setting("trust.keys", <<k>>)>> : k \in Keys} \cup {<<Setting("trust.keys", <<j, k>>)>> : j, k \in Keys} \cup
  {<<Setting("trust.identities", <<[pattern |-> p, issuer |-> ""]>>)>> : p \in Patterns}
=============================================================================
