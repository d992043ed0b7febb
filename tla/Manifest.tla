------------------------------- MODULE Manifest -------------------------------
(***************************************************************************)
(* The manifest and its lines: src/autoupdater/src/manifest.c.  A line is  *)
(* a sequence of characters; what its text means to this node (its branch, *)
(* its image name) is given by Field and IsSignature.                      *)
(***************************************************************************)
EXTENDS Integers, Sequences

CONSTANTS
  Null,
  Newline,         \* the character that ends a line
  Separator,       \* the line "---"
  Field(_),        \* what a header line says, see below
  IsSignature(_)   \* is the line a signature in hexadecimal digits?

\* What a line says is a record: its key is "branch" for the node's own branch,
\* "date" or "priority" with a value, "model" with a hash and an entry for a line
\* of five fields about the node's image, or "other".  A date that cannot be read
\* is Null, and so is the entry (version, size and file) when a field is bad; a
\* priority is what strtof makes of the text, 0 when that is no number.

\* clear_manifest, and the manifest autoupdate() starts with.  Fields that were
\* not found are Null; hashed are the lines that went into hash_ctx.
EmptyManifest ==
  [sep_found |-> FALSE, branch_ok |-> FALSE, date |-> Null, priority |-> Null,
   image_hash |-> Null, entry |-> Null, signatures |-> <<>>, hashed |-> <<>>]

\* Mutant: the last entry for the model counts, not the first.
LastEntryCounts(h, line) ==
  LET f == Field(line)
  IN  CASE f.key = "branch" -> [h EXCEPT !.branch_ok = TRUE]
        [] f.key = "date" /\ h.date = Null -> [h EXCEPT !.date = f.value]
        [] f.key = "priority" /\ h.priority = Null ->
             [h EXCEPT !.priority = f.value]
        [] f.key = "model" /\ f.hash # Null ->
             [h EXCEPT !.image_hash = f.hash,
                       !.entry = IF f.entry = Null THEN @ ELSE f.entry]
        [] OTHER -> h

\* A header line: the first value of a field counts; image_hash is written before
\* the size is known to be good.
ReadField(h, line) ==
  LET f == Field(line)
  IN  CASE f.key = "branch" -> [h EXCEPT !.branch_ok = TRUE]
        [] f.key = "date" /\ h.date = Null -> [h EXCEPT !.date = f.value]
        [] f.key = "priority" /\ h.priority = Null ->
             [h EXCEPT !.priority = f.value]
        [] f.key = "model" /\ h.entry = Null /\ f.hash # Null ->
             [h EXCEPT !.image_hash = f.hash, !.entry = f.entry]
        [] OTHER -> h

parse_line(line, m) ==
  CASE m.sep_found /\ IsSignature(line) ->
         [m EXCEPT !.signatures = Append(@, line)]
    [] m.sep_found /\ ~IsSignature(line) -> m
    [] ~m.sep_found /\ line = Separator -> [m EXCEPT !.sep_found = TRUE]
    [] ~m.sep_found /\ line # Separator ->
         ReadField([m EXCEPT !.hashed = Append(@, line)], line)

\* Does the text have a whole line?
HasLine(text) == \E i \in 1..Len(text) : text[i] = Newline

\* The place of the first newline: strchr.
FirstNewline(text) ==
  CHOOSE i \in 1..Len(text) :
    text[i] = Newline /\ \A k \in 1..(i - 1) : text[k] # Newline

\* The first line, without its newline, and what is behind it.
FirstLine(text) == SubSeq(text, 1, FirstNewline(text) - 1)
BehindLine(text) == SubSeq(text, FirstNewline(text) + 1, Len(text))

-------------------------------------------------------------------------------
(* What the fields come from                                               *)

ValueOf(key, line) == IF Field(line).key = key THEN Field(line).value ELSE Null

EntryOf(line) ==
  IF Field(line).key = "model" /\ Field(line).hash # Null
  THEN Field(line).entry ELSE Null

\* value is given by the first line of header that has one for the key; Null when
\* there is none.
GivenFirst(header, key, value) ==
  \/ value = Null /\ \A i \in 1..Len(header) : ValueOf(key, header[i]) = Null
  \/ \E i \in 1..Len(header) :
       /\ value = ValueOf(key, header[i]) /\ value # Null
       /\ \A k \in 1..(i - 1) : ValueOf(key, header[k]) = Null
===============================================================================
