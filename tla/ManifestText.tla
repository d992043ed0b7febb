---------------------------- MODULE ManifestText ----------------------------
(***************************************************************************)
(* What a manifest means: its whole lines, one after the other, whatever   *)
(* the pieces are in which it arrives.  Only the text behind a NUL         *)
(* character may get lost.                                                 *)
(***************************************************************************)
EXTENDS Manifest

CONSTANTS
  Texts,   \* what a server may send
  Nul      \* the character that ends a C string

VARIABLES
  rest,      \* the text that was not parsed yet
  m,         \* the manifest read from what was
  complete   \* is the manifest complete?

textVars == <<rest, m, complete>>

Init == rest \in Texts /\ m = EmptyManifest /\ complete = FALSE

TakeLine ==
  /\ ~complete
  /\ HasLine(rest)
  /\ m' = parse_line(FirstLine(rest), m)
  /\ rest' = BehindLine(rest)
  /\ UNCHANGED complete

\* A NUL and some of what is behind it.
LoseBehindNul ==
  /\ \E i \in 1..Len(rest) : \E j \in i..Len(rest) :
       /\ rest[i] = Nul
       /\ rest' = SubSeq(rest, 1, i - 1) \o SubSeq(rest, j + 1, Len(rest))
  /\ UNCHANGED <<m, complete>>

\* A last line without a newline is no line.
Finish ==
  /\ ~HasLine(rest)
  /\ complete' = TRUE
  /\ UNCHANGED <<rest, m>>

Next == TakeLine \/ LoseBehindNul \/ Finish

Spec == Init /\ [][Next]_textVars
===============================================================================
