------------------------------- MODULE Bundle -------------------------------
(***************************************************************************)
(* A skill's directory and what the program makes of it: the bundle that   *)
(* every command loads (pkg/skill), the leaves of its SGMT-1 root           *)
(* (pkg/attest/merkle.go), and the OMS manifest over it, made and checked   *)
(* (pkg/attest/oms).                                                       *)
(*                                                                         *)
(* A directory maps paths, sequences of names, to entries: regular files   *)
(* with their lines, symlinks and pipes. Directories are the prefixes of    *)
(* paths. Sizes are counted in lines.                                      *)
(***************************************************************************)
EXTENDS Manifest, SequencesExt

CONSTANTS Language,      \* names with a script's extension, to their languages
          ConfigNames,   \* names the loader knows as configuration
          DataNames,     \* names of JSON and TOML files
          DocNames,      \* names whose extension is prose
          MaxFileSize, MaxBundleSize

ScriptNames == DOMAIN Language

ASSUME BundleAssumption == MaxFileSize \in Nat /\ MaxBundleSize \in Nat

SkillMD == <<"SKILL.md">>
SkipNames == {".git", ".DS_Store", "Thumbs.db"}
Signatures == {"SKILL.md.skillsig", "skill.oms.sig"}

\* A sequence, of whatever is in it.
IsSeq(s) == s \in Seq(ToSet(s))
Has(text, mark) == \E i \in DOMAIN text : mark \in text[i].marks

-----------------------------------------------------------------------------
(***************************************************************************)
(* LoadBundle on a directory. A skipped name hides the entry and, for a    *)
(* directory, all below it; a signature is left out of the bundle only     *)
(* after it was seen to be a regular file.                                 *)
(***************************************************************************)
Walked(dir) == {p \in DOMAIN dir : \A i \in DOMAIN p : p[i] \notin SkipNames}
Files(dir) == {p \in Walked(dir) : Last(p) \notin Signatures}

Loads(dir) ==
  /\ \A p \in Walked(dir) : dir[p].type = "file"
  /\ \A p \in Files(dir) : Len(dir[p].text) <= MaxFileSize
  /\ MapThenSumSet(LAMBDA p : Len(dir[p].text), Files(dir)) <= MaxBundleSize
  /\ SkillMD \in Files(dir)

IsConfig(p, text) ==
  \/ Last(p) \in ConfigNames
  \/ \E i \in 1..(Len(p) - 1) : p[i] = ".claude"
  \/ Last(p) \in DataNames /\ ~Has(text, "NUL") /\ Has(text, "mcpServers")
IsDoc(p, text) == Last(p) \in DocNames /\ ~Has(text, "NUL")
HasShebang(text) == text # <<>> /\ "#!bash" \in text[1].marks

Role(p, text) ==
  IF p = SkillMD THEN "manifest"
  ELSE IF Last(p) \in ScriptNames THEN "script"
  ELSE IF IsConfig(p, text) THEN "config"
  ELSE IF IsDoc(p, text) THEN "doc"
  ELSE IF HasShebang(text) THEN "script" ELSE "asset"

LanguageOf(p) == IF Last(p) \in ScriptNames THEN Language[Last(p)] ELSE "bash"

LoadBundle(dir) ==
  [files |-> [p \in Files(dir) |-> dir[p].text],
   role  |-> [p \in Files(dir) |-> Role(p, dir[p].text)],
   skill |-> ParseSkillMD(dir[SkillMD].text)]

-----------------------------------------------------------------------------
\* The leaves of the SGMT-1 root; the root stands for them (hashes are injective).
BundleLeaves(b) ==
  [p \in DOMAIN b.files |->
     IF p = SkillMD THEN NormalizeSkillMD(b.files[p]) ELSE b.files[p]]

-----------------------------------------------------------------------------
(***************************************************************************)
(* The OMS manifest: which files it lists when it is made, and what a      *)
(* verifier says of a bundle beside it. An ignored path hides all below    *)
(* it, at the top level only.                                              *)
(***************************************************************************)
DefaultIgnorePaths == {<<".git">>, <<".gitattributes">>, <<".github">>, <<".gitignore">>}
SignatureFileNames == {<<s>> : s \in Signatures}

Excluded(p, ignores) == \E ig \in ignores : IsPrefix(ig, p)

BuildStatement(b) ==
  LET ignores == DefaultIgnorePaths \cup SignatureFileNames
  IN [resources |-> [p \in {p \in DOMAIN b.files : ~Excluded(p, ignores)} |-> b.files[p]],
      ignores   |-> ignores]

\* Mutant: an ignored name hides what is below it at any depth.
VerifyAnyDepth(b, st) ==
  LET listed == DOMAIN st.resources
      onDisk == DOMAIN b.files
      hidden == {Last(p) : p \in st.ignores \cup DefaultIgnorePaths \cup SignatureFileNames}
  IN [mismatched |-> {p \in listed \cap onDisk : b.files[p] # st.resources[p]},
      missing    |-> listed \ onDisk,
      unsigned   |-> {p \in onDisk \ listed : \A i \in DOMAIN p : p[i] \notin hidden}]

VerifyManifest(b, st) ==
  LET listed == DOMAIN st.resources
      onDisk == DOMAIN b.files
      ignores == st.ignores \cup DefaultIgnorePaths \cup SignatureFileNames
  IN [mismatched |-> {p \in listed \cap onDisk : b.files[p] # st.resources[p]},
      missing    |-> listed \ onDisk,
      unsigned   |-> {p \in onDisk \ listed : ~Excluded(p, ignores)}]

Clean(result) ==
  result.mismatched = {} /\ result.missing = {} /\ result.unsigned = {}

=============================================================================
