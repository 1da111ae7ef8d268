---------------------------- MODULE MCProvenance ----------------------------
(* Values for model checking Provenance: two roster keys with identities and *)
(* one outsider; identity rules that may or may not admit the second key.    *)
EXTENDS Provenance, TLC

K1 == [keyid |-> "k1", material |-> "m1", identity |-> "i1"]
K2 == [keyid |-> "k2", material |-> "m2", identity |-> "i2"]
Outsider == [keyid |-> "k3", material |-> "m3", identity |-> "i3"]

MCSigners == {K1, K2, Outsider}
MCRoster == {K1, K2}
MCSoleSigner == {K1}
AdmitFirst == {[issuer |-> "", admits |-> {"i1"}]}
IssuerScoped == {[issuer |-> "g", admits |-> {"e"}]}

\* One log is pinned, with its id; another is not.
MCLedger == ("l1" :> <<<<2>>, <<3>>, <<4>>, <<5>>>>) @@ ("l2" :> <<<<6>>>>)
NoLedger == << >>
PinFirst == {[keyid |-> "id1", material |-> "l1"]}
Honest(time) == LogEntry("l1", 1, 3, "id1", time)
TreeOf(n) == [size |-> n, root |-> TreeHash(MCLedger["l1"], n)]

\* Further entries: none; one proven at a later time, or with no time at all; one
\* of another log, under its own or the pinned log's id; one under a false index,
\* one whose path is cut, one beside the checkpoint of another tree, without a
\* proof, without a checkpoint, not to be read; the third leaf as the
\* second of two, which has the same root; and a later proven entry beside an
\* earlier one without a proof.
ExtraOne ==
  LET e == Honest(1)  proof == HonestProof(MCLedger["l1"], 1, 3)
      other == LogEntry("l2", 0, 1, "id2", 9)
      third == HonestProof(MCLedger["l1"], 2, 3)
  IN {Honest(9), Honest(0), other, [other EXCEPT !.logId = NoId],
      [e EXCEPT !.proof = {[proof EXCEPT !.index = 0]}],
      [e EXCEPT !.proof = {[proof EXCEPT !.hashes = Tail(@)]}],
      [e EXCEPT !.checkpoint = {TreeOf(4)}],
      [e EXCEPT !.proof = {}],
      [e EXCEPT !.checkpoint = {}],
      [e EXCEPT !.decodes = FALSE],
      [e EXCEPT !.body = <<4>>, !.proof = {[third EXCEPT !.index = 1, !.size = 2]},
                !.checkpoint = {TreeOf(3)}]}
MCExtra ==
  {{}, {Honest(9), [Honest(1) EXCEPT !.proof = {}]}} \cup {{e} : e \in ExtraOne}

\* Issued by either authority, or by an intermediate that is there, has expired,
\* or is missing.
Issued(by, rest) == [by |-> by, rest |-> rest]
Between(to) == [name |-> "n1", by |-> "a1", from |-> 0, to |-> to]
MCIssuances ==
  {Issued("a1", << >>), Issued("a2", << >>), Issued("n1", <<Between(9)>>),
   Issued("n1", <<Between(0)>>), Issued("n1", << >>)}

\* The admitted identity and issuer, as an e-mail; the same under a URI that is
\* another identity; under another issuer; under both issuers, the current one
\* another; and no identity.
Subject(uri, email, current, original) ==
  [san |-> [uri |-> uri, email |-> email, dns |-> ""],
   issuers |-> [current |-> current, original |-> original]]
MCSubjects ==
  {Subject("", "e", "g", ""), Subject("f", "e", "g", ""), Subject("", "e", "", "h"),
   Subject("", "e", "h", "g"), Subject("", "", "g", "")}

\* Every way of issuing for every subject; every evidence, with and without the
\* signature's own entry, for the admitted subject.
KeylessOf(issuance, subject, place, extra, kept) ==
  [issuance |-> issuance, subject |-> subject, place |-> place, extra |-> extra, kept |-> kept]
InPinnedLog == [log |-> "l1", index |-> 2, size |-> 4]
InOtherLog == [log |-> "l2", index |-> 0, size |-> 1]
MCKeyless ==
  {KeylessOf(i, s, InPinnedLog, {}, TRUE) : i \in MCIssuances, s \in MCSubjects}
  \cup {KeylessOf(Issued("a1", << >>), Subject("", "e", "g", ""), place, extra, kept) :
          place \in {InPinnedLog, InOtherLog}, extra \in MCExtra,
          kept \in BOOLEAN}

\* No content holds a reserved line that normalisation keeps; or "c2" is "c1" with one.
NothingToClean == [c \in Contents |-> c]
OneIsCleaned == [c \in Contents |-> IF c = "c2" THEN "c1" ELSE c]

\* Contents are compared with each other only for equality, where none is cleaned.
ContentSymmetry == Permutations(Contents)
=============================================================================
