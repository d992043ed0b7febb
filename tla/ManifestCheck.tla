---------------------------- MODULE ManifestCheck ----------------------------
(***************************************************************************)
(* The first half of autoupdate(), from the request for the manifest to    *)
(* the decision: recv_manifest_cb with its line buffer, and the tests of   *)
(* what was read (src/autoupdater/src/autoupdater.c).  get_url is the      *)
(* subject of HttpTransfer.  Autoupdater takes the decision from here as   *)
(* ManifestError, BadManifest, NoNewVersion, NotDue or Proceed.            *)
(***************************************************************************)
EXTENDS Manifest, Version, Schedule, FiniteSets

CONSTANTS
  Characters,        \* characters of texts
  Texts,             \* what a server may send
  Nul,               \* the character that ends a C string
  MAX_LINE_LENGTH,   \* characters the buffer can hold
  Nodes,             \* settings, clock and uptime of the node, see NodeRecord
  Keys,              \* the public keys
  Verifies(_, _, _), \* Verifies(s, k, h): is s the signature of the lines h by k?
  GoodSignatures     \* settings.good_signatures

NodeRecord ==
  [old_version: Seq(1..127) \cup {Null}, force: BOOLEAN, force_version: BOOLEAN,
   fallback: BOOLEAN, now: Int, uptime: Nat]

Decisions == {"failed", "rejected", "nothing new", "not now", "upgrade"}

ASSUME CheckAssumption ==
  /\ MAX_LINE_LENGTH \in Nat \ {0}
  /\ Null \notin Int \cup Decisions \cup {NaN, Infinite}
  /\ Newline # Nul
  /\ Texts \subseteq Seq(Characters)
  /\ \A node \in Nodes : node \in NodeRecord

VARIABLES
  unread,        \* the part of the manifest that is still to come
  buf,           \* ctx->buf up to its NUL
  m,             \* ctx->m
  stage,         \* "receive", "check" or "done"
  interrupted,   \* did a signal end the download?
  decision,      \* what autoupdate() makes of the manifest, or Null
  node           \* settings, clock and uptime

vars == <<unread, buf, m, stage, interrupted, decision, node>>

Init ==
  /\ unread \in Texts
  /\ buf = <<>>
  /\ m = EmptyManifest
  /\ stage = "receive"
  /\ interrupted = FALSE
  /\ decision = Null
  /\ node \in Nodes

-------------------------------------------------------------------------------
(* recv_manifest_cb                                                        *)

\* A C string ends at its first NUL.
CString(s) ==
  IF \E i \in 1..Len(s) : s[i] = Nul
  THEN SubSeq(s, 1, (CHOOSE i \in 1..Len(s) :
                       s[i] = Nul /\ \A k \in 1..(i - 1) : s[k] # Nul) - 1)
  ELSE s

\* Is the callback through with the lines of the buffer?
Waiting == stage = "receive" /\ ~HasLine(buf)

\* Mutant: a read may fill a whole buffer, whatever is left from the last one.
ReadWholeBuffer ==
  /\ Waiting
  /\ \E n \in 1..MAX_LINE_LENGTH :
       /\ n <= Len(unread)
       /\ buf' = CString(buf \o SubSeq(unread, 1, n))
       /\ unread' = SubSeq(unread, n + 1, Len(unread))
  /\ UNCHANGED <<m, stage, interrupted, decision, node>>

\* Mutant: the last character of the buffer is not used.
ReadLeavesOne ==
  /\ Waiting
  /\ \E n \in 1..(MAX_LINE_LENGTH - 1 - Len(buf)) :
       /\ n <= Len(unread)
       /\ buf' = CString(buf \o SubSeq(unread, 1, n))
       /\ unread' = SubSeq(unread, n + 1, Len(unread))
  /\ UNCHANGED <<m, stage, interrupted, decision, node>>

\* uclient_read_account puts some characters behind the rest of the last line; when
\* the buffer is full there is no room for any.
Read ==
  /\ Waiting
  /\ \E n \in 1..(MAX_LINE_LENGTH - Len(buf)) :
       /\ n <= Len(unread)
       /\ buf' = CString(buf \o SubSeq(unread, 1, n))
       /\ unread' = SubSeq(unread, n + 1, Len(unread))
  /\ UNCHANGED <<m, stage, interrupted, decision, node>>

\* The first line of the buffer goes to parse_line; the rest is what is scanned, or
\* moved to the beginning of the buffer, next.
ParseLine ==
  /\ stage = "receive"
  /\ HasLine(buf)
  /\ m' = parse_line(FirstLine(buf), m)
  /\ buf' = BehindLine(buf)
  /\ UNCHANGED <<unread, stage, interrupted, decision, node>>

\* Mutant: the download is taken for complete when the buffer has no line.
EofEarly ==
  /\ Waiting
  /\ stage' = "check"
  /\ UNCHANGED <<unread, buf, m, interrupted, decision, node>>

\* get_url returns 0 when all was read.
Eof ==
  /\ Waiting
  /\ unread = <<>>
  /\ stage' = "check"
  /\ UNCHANGED <<unread, buf, m, interrupted, decision, node>>

\* A signal ends the download; get_url returns 0 all the same.
Interrupt ==
  /\ Waiting
  /\ stage' = "check"
  /\ interrupted' = TRUE
  /\ UNCHANGED <<unread, buf, m, decision, node>>

\* autoupdate() returns with this decision, or goes on to the image.
Decide(d) ==
  /\ stage' = "done"
  /\ decision' = d
  /\ UNCHANGED <<unread, buf, m, interrupted, node>>

\* get_url returns an error.
Error == Waiting /\ Decide("failed")

-------------------------------------------------------------------------------
(* The tests in autoupdate()                                               *)

\* External: ecdsa_verify_list_legacy counts the keys that made a signature.
good_signatures(s, h) ==
  Cardinality({k \in Keys : \E i \in 1..Len(s) : Verifies(s[i], k, h)})

\* Enough signatures, the mandatory fields, the branch and an image.
Usable ==
  /\ good_signatures(m.signatures, m.hashed) >= GoodSignatures
  /\ m.date # Null /\ m.priority # Null
  /\ m.branch_ok
  /\ m.entry # Null

\* newer_than with its NULL cases; a version of a manifest is never NULL.
Newer(old) == IF old = Null THEN TRUE ELSE newer_than(m.entry.version, old)

\* Mutant: the fallback run of the night draws like any other.
PlainProbability ==
  get_probability(node.now - m.date, node.uptime, m.priority, FALSE)

Probability ==
  get_probability(node.now - m.date, node.uptime, m.priority, node.fallback)

Reject == stage = "check" /\ ~Usable /\ Decide("rejected")

NothingNew ==
  /\ stage = "check" /\ Usable
  /\ ~Newer(node.old_version) /\ ~node.force_version
  /\ Decide("nothing new")

\* The tests before the draw are passed.
Wanted ==
  /\ stage = "check" /\ Usable
  /\ Newer(node.old_version) \/ node.force_version

NotNow ==
  /\ Wanted
  /\ ~node.force
  /\ \E random \in 0..RandMax : ~Due(random, Probability)
  /\ Decide("not now")

Upgrade ==
  /\ Wanted
  /\ node.force \/ \E random \in 0..RandMax : Due(random, Probability)
  /\ Decide("upgrade")

-------------------------------------------------------------------------------
Step == Read \/ ParseLine \/ Eof \/ Reject \/ NothingNew \/ NotNow \/ Upgrade

Next == Step \/ Interrupt \/ Error

Spec == Init /\ [][Next]_vars

\* A server sends its text and ends it; nothing makes a transfer fail.
FairSpec == Spec /\ WF_vars(Step)

-------------------------------------------------------------------------------
(* Properties                                                              *)

\* The buffer holds no more than it can, and the stage, the decision and what the
\* decision rests on have their types.
TypeOK ==
  /\ Len(buf) <= MAX_LINE_LENGTH
  /\ m.sep_found \in BOOLEAN
  /\ m.branch_ok \in BOOLEAN
  /\ stage \in {"receive", "check", "done"}
  /\ interrupted \in BOOLEAN
  /\ decision \in Decisions \cup {Null}
  /\ node \in Nodes

\* An upgrade follows what the signatures sign: enough keys signed the header, it has
\* a line for the branch, and date, priority and image are those of the first
\* lines that give them; version, file and hash come from one line, although
\* the hash of a line is stored before the line is known to be good.
UpgradeIsSigned ==
  decision = "upgrade" =>
    LET h == m.hashed
    IN  /\ good_signatures(m.signatures, h) >= GoodSignatures
        /\ \E i \in 1..Len(h) : Field(h[i]).key = "branch"
        /\ m.date # Null /\ GivenFirst(h, "date", m.date)
        /\ m.priority # Null /\ GivenFirst(h, "priority", m.priority)
        /\ \E i \in 1..Len(h) :
             /\ Field(h[i]).key = "model"
             /\ Field(h[i]).entry = m.entry /\ Field(h[i]).hash = m.image_hash
             /\ \A k \in 1..(i - 1) : EntryOf(h[k]) = Null
        /\ node.force_version \/ Newer(node.old_version)

\* Unless forced, a node upgrades before the date of the manifest only when it had time
\* to set its clock, at the date itself only without a span (a priority of zero
\* or less, or NaN), with --fallback and the date past only a day after the
\* span has passed, and never when the span is infinite.
NotBeforeItsTime ==
  decision = "upgrade" /\ ~node.force =>
    LET diff == node.now - m.date
        span == m.priority
    IN  /\ span # Infinite
        /\ diff < 0 => node.uptime >= 600
        /\ diff = 0 => span = NaN \/ span <= 0
        /\ diff >= 0 /\ node.fallback => span # NaN /\ diff >= span + Day

\* usage(): "--fallback  Upgrade if and only if the upgrade timespan of the new
\* version has passed for at least 24 hours": no other time will do.
FallbackOnlyOverdue ==
  decision = "upgrade" /\ node.fallback /\ ~node.force =>
    Overdue(node.now - m.date, m.priority)

\* When the transfer does not fail by itself, autoupdate() decides; only a line that
\* fills the buffer stops it: nothing is read any more, and nothing is
\* given up either, until libuclient reports an error.
DecidesOrStalls ==
  <>(stage = "done") \/ <>[](Waiting /\ Len(buf) = MAX_LINE_LENGTH /\ unread # <<>>)

Text == INSTANCE ManifestText WITH
  rest <- buf \o unread,
  complete <- stage # "receive" /\ ~interrupted /\ decision # "failed"

\* However the stream is cut into pieces, the manifest is read line by line, each
\* line once, all of them before it is judged.
ImplementsText == Text!Spec
===============================================================================
