------------------------------ MODULE Manifest ------------------------------
(***************************************************************************)
(* SKILL.md as a sequence of lines. Three parts of the program cut it      *)
(* apart, each in its own way: the loader takes the front matter and the   *)
(* body out of it (pkg/skill), the SGMT-1 leaf leaves reserved lines out   *)
(* of it (pkg/attest/merkle.go), and `sign --emit-manifest-fields` writes  *)
(* those lines into it (pkg/attest/usf.go).                                *)
(*                                                                         *)
(* A line has a key (NoKey for plain text), the shape of its value, an     *)
(* indentation, and marks: the things in it that rules look for. Lines     *)
(* that are blank, a comment or an item of a list have no key.             *)
(***************************************************************************)
EXTENDS Integers, Sequences, FiniteSets, FiniteSetsExt

NoKey == "none"
Delimiter == [key |-> NoKey, value |-> "---", indented |-> FALSE, marks |-> {}]
Field(key, value) == [key |-> key, value |-> value, indented |-> FALSE, marks |-> {}]

\* The lines of text at the positions in S.
KeepAt(text, S) ==
  LET upTo[n \in 0..Len(text)] ==
        IF n = 0 THEN <<>> ELSE upTo[n-1] \o (IF n \in S THEN <<text[n]>> ELSE <<>>)
  IN upTo[Len(text)]

\* The loader folds the case of keys; so does the expression for reserved lines.
Fold(key) == IF key = "Signature" THEN "signature" ELSE key
Reserved(line) == ~line.indented /\ Fold(line.key) \in {"content_hash", "signature"}

-----------------------------------------------------------------------------
(***************************************************************************)
(* What the loader makes of it (parseSkillMD). Its expression wants a line *)
(* between the delimiters, that of the normaliser does not.                *)
(***************************************************************************)
Closing(text, first) ==
  IF text # <<>> /\ text[1] = Delimiter
  THEN {i \in first..Len(text) : text[i] = Delimiter} ELSE {}

\* Mutant: the closing delimiter is not counted.
ParseShort(text) ==
  IF Closing(text, 3) = {}
  THEN [present |-> FALSE, front |-> <<>>, frontOffset |-> 0, body |-> text, bodyOffset |-> 0]
  ELSE LET end == Min(Closing(text, 3)) IN
    [present |-> TRUE, front |-> SubSeq(text, 2, end - 1), frontOffset |-> 1,
     body |-> SubSeq(text, end + 1, Len(text)), bodyOffset |-> end - 1]

ParseSkillMD(text) ==
  IF Closing(text, 3) = {}
  THEN [present |-> FALSE, front |-> <<>>, frontOffset |-> 0, body |-> text, bodyOffset |-> 0]
  ELSE LET end == Min(Closing(text, 3)) IN
    [present |-> TRUE, front |-> SubSeq(text, 2, end - 1), frontOffset |-> 1,
     body |-> SubSeq(text, end + 1, Len(text)), bodyOffset |-> end]

\* yaml.v3 on the shapes that matter here. A blank or comment line is neither a
\* field nor text; it says nothing (blank lines inside a value are not recorded),
\* but a comment ends the text of a plain or block value.
Void(line) == line.value \in {"blank", "comment"}

\* Whether the value of the last key goes on with a line: the text of a block, to
\* which blank lines belong where it keeps them; the text of a plain value; what is
\* below an empty one, children or items, which may stand as far left as the key.
Nesting == {"empty", "items", "children"}
GoesOn(shape, line) ==
  \/ shape \in {"block", "keep"} /\ line.indented /\ line.value # "blank"
  \/ shape = "keep" /\ line.value = "blank"
  \/ shape \in {"plain", "close"} /\ line.indented /\ line.key = NoKey /\ ~Void(line)
  \/ shape \in Nesting /\ line.indented /\ ~Void(line)
  \/ shape \in {"empty", "items"} /\ line.value = "item"

ShapeAfter(shape, line) ==
  IF shape = "empty" THEN IF line.indented THEN "children" ELSE "items" ELSE shape

\* An open quote runs to the next line with a quote. A repeated key, text without
\* a key, an indented line that continues nothing and an unclosed quote make the
\* document unreadable; the inside of a nested value is taken to be readable.
YamlStep(doc, line) ==
  LET goesOn == [doc EXCEPT !.says[doc.key] = Append(@, line)]
  IN IF doc.bad \/ line = Delimiter THEN doc
     ELSE IF doc.quoted
     THEN IF line.value = "quoted" THEN [doc EXCEPT !.bad = TRUE]
          ELSE [goesOn EXCEPT !.quoted = line.value \notin {"open", "close"}]
     ELSE IF GoesOn(doc.shape, line)
     THEN [goesOn EXCEPT !.shape = ShapeAfter(doc.shape, line),
                         !.quoted = doc.shape \in Nesting /\ line.value = "open"]
     ELSE IF Void(line)
     THEN [doc EXCEPT !.shape = IF line.value = "comment" /\ doc.shape \notin Nesting THEN "done" ELSE @]
     ELSE IF line.indented THEN [doc EXCEPT !.bad = TRUE]
     ELSE [key |-> line.key, shape |-> line.value, quoted |-> line.value = "open",
           bad |-> line.key = NoKey \/ line.key \in DOMAIN doc.says,
           says |-> [k \in DOMAIN doc.says \cup {line.key} |->
                       IF k = line.key THEN <<line>> ELSE doc.says[k]]]

Yaml(lines) ==
  LET upTo[n \in 0..Len(lines)] ==
        IF n = 0
        THEN [key |-> NoKey, shape |-> "none", quoted |-> FALSE, bad |-> FALSE, says |-> <<>>]
        ELSE YamlStep(upTo[n-1], lines[n])
      doc == upTo[Len(lines)]
  IN IF doc.bad \/ doc.quoted THEN <<>> ELSE doc.says

\* The manifest: what each key says, the two signature fields apart. A document
\* that cannot be read says nothing; the error is dropped.
ManifestFields(front) ==
  LET says == Yaml(front)
  IN [k \in {k \in DOMAIN says : Fold(k) \notin {"content_hash", "signature"}} |-> says[k]]

-----------------------------------------------------------------------------
(***************************************************************************)
(* What the SGMT-1 leaf covers (NormalizeSkillMD, stripSafeReserved).      *)
(***************************************************************************)
Block(text) == IF Closing(text, 2) = {} THEN {} ELSE 2..(Min(Closing(text, 2)) - 1)

SafeScalar(line) == line.value \in {"plain", "quoted"}
OnlyOne(text, i) ==
  \A j \in Block(text) \ {i} : Reserved(text[j]) => Fold(text[j].key) # Fold(text[i].key)
Continued(text, i) == i + 1 \in Block(text) /\ text[i + 1].indented

\* Mutant: a reserved line is dropped whatever its value is.
DroppedUnsafe(text) ==
  {i \in Block(text) : Reserved(text[i]) /\ OnlyOne(text, i) /\ ~Continued(text, i)}

Dropped(text) ==
  {i \in Block(text) : /\ Reserved(text[i])
                       /\ OnlyOne(text, i)
                       /\ SafeScalar(text[i])
                       /\ ~Continued(text, i)}

NormalizeSkillMD(text) == KeepAt(text, DOMAIN text \ Dropped(text))

-----------------------------------------------------------------------------
(***************************************************************************)
(* What `sign` writes (WriteUSFFields): fresh fields on top, every other   *)
(* reserved line removed, whatever its shape.                              *)
(***************************************************************************)
HasBlock(text) == Closing(text, 2) # {}

\* Mutant: the fields that are there already stay.
WriteBeside(text) ==
  <<Delimiter, Field("content_hash", "quoted"), Field("signature", "quoted")>> \o Tail(text)

WriteUSFFields(text) ==
  <<Delimiter, Field("content_hash", "quoted"), Field("signature", "quoted")>>
  \o KeepAt(text, {i \in 2..Len(text) : i \in Block(text) => ~Reserved(text[i])})

=============================================================================
