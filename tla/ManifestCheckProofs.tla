------------------------- MODULE ManifestCheckProofs -------------------------
(***************************************************************************)
(* Theorems about ManifestCheck, for any text, buffer, node and keys.      *)
(***************************************************************************)
EXTENDS ManifestCheck, SequenceTheorems, WellFoundedInduction, TLAPS

Line == Seq(Characters)

-------------------------------------------------------------------------------
(* Lines and strings                                                       *)

LEMMA Least ==
  ASSUME NEW T \in SUBSET Nat, T # {}
  PROVE  \E i \in T : \A k \in T : i <= k
<1>1. PICK i \in T : \A k \in T : <<k, i>> \notin OpToRel(<, Nat)
  BY WFMin, NatLessThanWellFounded
<1>2. ASSUME NEW k \in T PROVE i <= k
  <2>1. <<k, i>> \notin OpToRel(<, Nat)
    BY <1>1
  <2>2. ~(k < i)
    BY <2>1 DEF OpToRel
  <2> QED BY <2>2
<1> QED BY <1>2

\* The first newline is one that has none before it.
LEMMA FirstNewlineIs ==
  ASSUME NEW text \in Line, HasLine(text)
  PROVE  /\ FirstNewline(text) \in 1..Len(text)
         /\ text[FirstNewline(text)] = Newline
         /\ \A k \in 1..(FirstNewline(text) - 1) : text[k] # Newline
<1> DEFINE T == {i \in 1..Len(text) : text[i] = Newline}
<1>1. T \in SUBSET Nat /\ T # {}
  BY DEF HasLine
<1> HIDE DEF T
<1>2. PICK i \in T : \A k \in T : i <= k
  BY <1>1, Least
<1>3. i \in 1..Len(text) /\ text[i] = Newline
  BY DEF T
<1>4. \A k \in 1..(i - 1) : text[k] # Newline
  BY <1>2, <1>3 DEF Line, T
<1> QED BY <1>3, <1>4 DEF FirstNewline

\* What a C string is: all of s, or what is before a NUL.
LEMMA CStringIs ==
  ASSUME NEW s \in Line
  PROVE  /\ CString(s) \in Line
         /\ Len(CString(s)) <= Len(s)
         /\ \/ CString(s) = s
            \/ \E i \in 1..Len(s) : s[i] = Nul /\ CString(s) = SubSeq(s, 1, i - 1)
<1>1. CASE \A i \in 1..Len(s) : s[i] # Nul
  BY <1>1 DEF CString, Line
<1>2. CASE \E i \in 1..Len(s) : s[i] = Nul
  <2> DEFINE T == {i \in 1..Len(s) : s[i] = Nul}
             First(i) == s[i] = Nul /\ \A k \in 1..(i - 1) : s[k] # Nul
             j == CHOOSE i \in 1..Len(s) : First(i)
  <2>0. T \in SUBSET Nat /\ T # {}
    BY <1>2
  <2> HIDE DEF T
  <2>1. PICK i \in T : \A k \in T : i <= k
    BY <2>0, Least
  <2>2. i \in 1..Len(s) /\ First(i)
    BY <2>1 DEF Line, T
  <2>3. j \in 1..Len(s) /\ First(j)
    BY <2>2
  <2>4. CString(s) = SubSeq(s, 1, j - 1)
    BY <1>2 DEF CString
  <2> HIDE DEF j
  <2>5. /\ SubSeq(s, 1, j - 1) \in Line
        /\ Len(SubSeq(s, 1, j - 1)) <= Len(s)
    BY <2>3, SubSeqProperties DEF Line
  <2> QED BY <2>3, <2>4, <2>5
<1> QED BY <1>1, <1>2

\* The first line of a text is that of its beginning.
LEMMA LineOfConcat ==
  ASSUME NEW s \in Line, NEW t \in Line, HasLine(s)
  PROVE  /\ HasLine(s \o t)
         /\ FirstLine(s \o t) = FirstLine(s) /\ FirstLine(s) \in Line
         /\ BehindLine(s \o t) = BehindLine(s) \o t /\ BehindLine(s) \in Line
         /\ Len(BehindLine(s)) <= Len(s)
<1> DEFINE i == FirstNewline(s)
           j == FirstNewline(s \o t)
<1>0. s \in Seq(Characters) /\ t \in Seq(Characters)
  BY DEF Line
<1>1. /\ i \in 1..Len(s) /\ s[i] = Newline
      /\ \A k \in 1..(i - 1) : s[k] # Newline
  BY FirstNewlineIs
<1>2. /\ s \o t \in Seq(Characters) /\ Len(s \o t) = Len(s) + Len(t)
      /\ \A k \in 1..(Len(s) + Len(t)) :
           (s \o t)[k] = IF k <= Len(s) THEN s[k] ELSE t[k - Len(s)]
  BY <1>0, ConcatProperties
<1>3. HasLine(s \o t)
  BY <1>0, <1>1, <1>2 DEF HasLine
<1>4. /\ j \in 1..Len(s \o t) /\ (s \o t)[j] = Newline
      /\ \A k \in 1..(j - 1) : (s \o t)[k] # Newline
  BY <1>2, <1>3, FirstNewlineIs DEF Line
<1> HIDE DEF i, j
<1>5. i = j
  <2>1. ~(j < i)
    BY <1>0, <1>1, <1>2, <1>4
  <2>2. ~(i < j)
    BY <1>0, <1>1, <1>2, <1>4
  <2> QED BY <1>0, <1>1, <1>2, <1>4, <2>1, <2>2
<1>6. FirstLine(s) = SubSeq(s, 1, i - 1) /\ BehindLine(s) = SubSeq(s, i + 1, Len(s))
  BY DEF FirstLine, BehindLine, i
<1>7. /\ FirstLine(s \o t) = SubSeq(s \o t, 1, i - 1)
      /\ BehindLine(s \o t) = SubSeq(s \o t, i + 1, Len(s) + Len(t))
  BY <1>2, <1>5 DEF FirstLine, BehindLine, j
<1>8. /\ SubSeq(s, 1, i - 1) \in Seq(Characters)
      /\ SubSeq(s, i + 1, Len(s)) \in Seq(Characters)
      /\ Len(SubSeq(s, i + 1, Len(s))) = Len(s) - i
      /\ \A k \in 1..(Len(s) - i) : SubSeq(s, i + 1, Len(s))[k] = s[i + k]
  BY <1>0, <1>1
<1>9. SubSeq(s \o t, 1, i - 1) = SubSeq(s, 1, i - 1)
  BY <1>0, <1>1, <1>2
<1>10. SubSeq(s \o t, i + 1, Len(s) + Len(t)) = SubSeq(s, i + 1, Len(s)) \o t
  <2> DEFINE u == SubSeq(s \o t, i + 1, Len(s) + Len(t))
             b == SubSeq(s, i + 1, Len(s))
             v == b \o t
  <2>1. /\ u \in Seq(Characters) /\ Len(u) = Len(s) + Len(t) - i
        /\ \A k \in 1..(Len(s) + Len(t) - i) : u[k] = (s \o t)[i + k]
    BY <1>0, <1>1, <1>2
  <2>2. /\ b \in Seq(Characters) /\ Len(b) = Len(s) - i
        /\ \A k \in 1..(Len(s) - i) : b[k] = s[i + k]
    BY <1>8
  <2> HIDE DEF u, b
  <2>3. /\ v \in Seq(Characters) /\ Len(v) = Len(b) + Len(t)
        /\ \A k \in 1..(Len(b) + Len(t)) :
             v[k] = IF k <= Len(b) THEN b[k] ELSE t[k - Len(b)]
    BY <1>0, <2>2, ConcatProperties
  <2> HIDE DEF v
  <2>4. ASSUME NEW k \in 1..Len(u) PROVE u[k] = v[k]
    BY <1>0, <1>1, <1>2, <2>1, <2>2, <2>3
  <2>5. Len(u) = Len(v)
    BY <1>0, <1>1, <2>1, <2>2, <2>3
  <2> QED BY <2>1, <2>3, <2>4, <2>5, SeqEqual DEF u, v, b
<1>11. Len(SubSeq(s, i + 1, Len(s))) <= Len(s)
  BY <1>0, <1>1, <1>8
<1>12. FirstLine(s \o t) = FirstLine(s) /\ FirstLine(s) \in Line
  BY <1>6, <1>7, <1>8, <1>9 DEF Line
<1>13. BehindLine(s \o t) = BehindLine(s) \o t /\ BehindLine(s) \in Line
  BY <1>6, <1>7, <1>8, <1>10 DEF Line
<1> QED BY <1>3, <1>6, <1>11, <1>12, <1>13

\* Reading moves characters from one end to the other.
LEMMA ReadKeepsText ==
  ASSUME NEW s \in Line, NEW u \in Line, NEW n \in 1..Len(u)
  PROVE  /\ s \o SubSeq(u, 1, n) \in Line
         /\ Len(s \o SubSeq(u, 1, n)) = Len(s) + n
         /\ SubSeq(u, n + 1, Len(u)) \in Line
         /\ (s \o SubSeq(u, 1, n)) \o SubSeq(u, n + 1, Len(u)) = s \o u
<1> DEFINE a == SubSeq(u, 1, n)
           b == SubSeq(u, n + 1, Len(u))
<1>0. s \in Seq(Characters) /\ u \in Seq(Characters)
  BY DEF Line
<1>1. a \in Seq(Characters) /\ Len(a) = n /\ b \in Seq(Characters)
  BY <1>0
<1>2. a \o b = SubSeq(u, 1, Len(u))
  BY <1>0, ConcatAdjacentSubSeq
<1>3. SubSeq(u, 1, Len(u)) = u
  BY <1>0, SubSeqFull
<1> HIDE DEF a, b
<1>4. (s \o a) \o b = s \o (a \o b)
  <2>1. ASSUME NEW x \in Seq(Characters), NEW y \in Seq(Characters)
        PROVE  (s \o x) \o y = s \o (x \o y)
    BY <1>0, ConcatAssociative, SMTT(30)
  <2> QED BY <1>1, <2>1
<1>5. s \o a \in Seq(Characters) /\ Len(s \o a) = Len(s) + Len(a)
  BY <1>0, <1>1, ConcatProperties
<1> QED BY <1>1, <1>2, <1>3, <1>4, <1>5 DEF a, b, Line

\* What is cut off the beginning of a text is missing in the text.
LEMMA CutFromText ==
  ASSUME NEW a \in Line, NEW b \in Line, NEW i \in 1..Len(a)
  PROVE  /\ a \o b \in Line /\ i \in 1..Len(a \o b) /\ Len(a) \in i..Len(a \o b)
         /\ (a \o b)[i] = a[i]
         /\ SubSeq(a, 1, i - 1) \o b
              = SubSeq(a \o b, 1, i - 1) \o SubSeq(a \o b, Len(a) + 1, Len(a \o b))
<1>0. a \in Seq(Characters) /\ b \in Seq(Characters)
  BY DEF Line
<1>1. /\ a \o b \in Seq(Characters) /\ Len(a \o b) = Len(a) + Len(b)
      /\ \A k \in 1..(Len(a) + Len(b)) :
           (a \o b)[k] = IF k <= Len(a) THEN a[k] ELSE b[k - Len(a)]
  BY <1>0, ConcatProperties
<1>2. SubSeq(a \o b, 1, i - 1) = SubSeq(a, 1, i - 1)
  BY <1>0, <1>1
<1>3. SubSeq(a \o b, Len(a) + 1, Len(a \o b)) = b
  <2> DEFINE v == SubSeq(a \o b, Len(a) + 1, Len(a \o b))
  <2>1. /\ v \in Seq(Characters) /\ Len(v) = Len(b)
        /\ \A k \in 1..Len(b) : v[k] = (a \o b)[Len(a) + k]
    BY <1>0, <1>1
  <2> HIDE DEF v
  <2>2. \A k \in 1..Len(v) : v[k] = b[k]
    BY <1>0, <1>1, <2>1, SMTT(30)
  <2> QED BY <1>0, <2>1, <2>2, SeqEqual DEF v
<1>4. /\ i \in 1..Len(a \o b) /\ Len(a) \in i..Len(a \o b)
      /\ (a \o b)[i] = a[i]
  BY <1>0, <1>1
<1> QED BY <1>1, <1>2, <1>3, <1>4 DEF Line

-------------------------------------------------------------------------------
(* The manifest                                                            *)

\* A manifest is a record with these fields.
ManifestType(x) ==
  /\ x = [sep_found |-> x.sep_found, branch_ok |-> x.branch_ok, date |-> x.date,
          priority |-> x.priority, image_hash |-> x.image_hash, entry |-> x.entry,
          signatures |-> x.signatures, hashed |-> x.hashed]
  /\ x.sep_found \in BOOLEAN
  /\ x.branch_ok \in BOOLEAN
  /\ x.hashed \in Seq(Line)

\* The hash and the entry are those of the first line that has an entry.
EntryFirst(h, hash, entry) ==
  \/ entry = Null /\ \A i \in 1..Len(h) : EntryOf(h[i]) = Null
  \/ \E i \in 1..Len(h) :
       /\ Field(h[i]).key = "model" /\ Field(h[i]).hash = hash
       /\ EntryOf(h[i]) = entry /\ entry # Null
       /\ \A k \in 1..(i - 1) : EntryOf(h[k]) = Null

\* The fields come from the lines that were hashed.
HeaderInv(x) ==
  /\ x.branch_ok => \E i \in 1..Len(x.hashed) : Field(x.hashed[i]).key = "branch"
  /\ GivenFirst(x.hashed, "date", x.date)
  /\ GivenFirst(x.hashed, "priority", x.priority)
  /\ EntryFirst(x.hashed, x.image_hash, x.entry)

\* What parse_line does to a header line.
LEMMA ReadFieldIs ==
  ASSUME NEW x, ManifestType(x), NEW line \in Line,
         x.sep_found = FALSE, line # Separator
  PROVE  LET y == parse_line(line, x)
             f == Field(line)
         IN  /\ ManifestType(y)
             /\ y.hashed = Append(x.hashed, line)
             /\ y.branch_ok = (x.branch_ok \/ f.key = "branch")
             /\ y.date = IF x.date = Null THEN ValueOf("date", line) ELSE x.date
             /\ y.priority = IF x.priority = Null THEN ValueOf("priority", line)
                             ELSE x.priority
             /\ y.entry = IF x.entry = Null THEN EntryOf(line) ELSE x.entry
             /\ IF f.key = "model" /\ x.entry = Null /\ f.hash # Null
                THEN y.image_hash = f.hash ELSE y.image_hash = x.image_hash
<1> DEFINE h == [x EXCEPT !.hashed = Append(@, line)]
           f == Field(line)
<1>1. parse_line(line, x) = ReadField(h, line)
  BY DEF parse_line, ManifestType
<1>2. /\ ManifestType(h) /\ h.hashed = Append(x.hashed, line)
      /\ h.branch_ok = x.branch_ok /\ h.date = x.date /\ h.priority = x.priority
      /\ h.entry = x.entry /\ h.image_hash = x.image_hash
  <2>1. Append(x.hashed, line) \in Seq(Line)
    BY AppendProperties DEF ManifestType
  <2>2. \A v \in Seq(Line) : LET g == [x EXCEPT !.hashed = v] IN
          /\ ManifestType(g) /\ g.hashed = v
          /\ g.branch_ok = x.branch_ok /\ g.date = x.date
          /\ g.priority = x.priority /\ g.entry = x.entry
          /\ g.image_hash = x.image_hash
    BY DEF ManifestType
  <2> QED BY <2>1, <2>2
<1> HIDE DEF h
<1> USE DEF EntryOf, ValueOf
<1>3. CASE f.key = "branch"
  BY <1>1, <1>2, <1>3 DEF ReadField, ManifestType
<1>4. CASE f.key = "date"
  BY <1>1, <1>2, <1>4 DEF ReadField, ManifestType
<1>5. CASE f.key = "priority"
  BY <1>1, <1>2, <1>5 DEF ReadField, ManifestType
<1>6. CASE f.key = "model"
  BY <1>1, <1>2, <1>6 DEF ReadField, ManifestType
<1>7. CASE f.key \notin {"branch", "date", "priority", "model"}
  BY <1>1, <1>2, <1>7 DEF ReadField, ManifestType
<1> QED BY <1>3, <1>4, <1>5, <1>6, <1>7

\* The first value of a key stays the first when a line is added.
LEMMA GivenFirstAppend ==
  ASSUME NEW key, NEW h \in Seq(Line), NEW line \in Line, NEW value,
         GivenFirst(h, key, value)
  PROVE  GivenFirst(Append(h, line), key,
                    IF value = Null THEN ValueOf(key, line) ELSE value)
<1> DEFINE g == Append(h, line)
<1>1. /\ Len(g) = Len(h) + 1 /\ g[Len(h) + 1] = line
      /\ \A i \in 1..Len(h) : g[i] = h[i]
      /\ Len(h) \in Nat
  BY AppendProperties
<1> HIDE DEF g
<1>2. CASE value = Null
  BY <1>1, <1>2 DEF GivenFirst
<1>3. CASE value # Null
  BY <1>1, <1>3 DEF GivenFirst
<1> QED BY <1>2, <1>3 DEF g

LEMMA EntryFirstAppend ==
  ASSUME NEW h \in Seq(Line), NEW line \in Line, NEW hash, NEW entry,
         EntryFirst(h, hash, entry), NEW hash2,
         IF Field(line).key = "model" /\ entry = Null /\ Field(line).hash # Null
         THEN hash2 = Field(line).hash ELSE hash2 = hash
  PROVE  EntryFirst(Append(h, line), hash2,
                    IF entry = Null THEN EntryOf(line) ELSE entry)
<1> DEFINE g == Append(h, line)
<1>1. /\ Len(g) = Len(h) + 1 /\ g[Len(h) + 1] = line
      /\ \A i \in 1..Len(h) : g[i] = h[i]
      /\ Len(h) \in Nat
  BY AppendProperties
<1> HIDE DEF g
<1>2. CASE entry # Null
  BY <1>1, <1>2 DEF EntryFirst
<1>3. CASE entry = Null /\ EntryOf(line) = Null
  BY <1>1, <1>3 DEF EntryFirst
<1>4. CASE entry = Null /\ EntryOf(line) # Null
  <2>1. Field(line).key = "model" /\ hash2 = Field(line).hash
    BY <1>4 DEF EntryOf
  <2>2. \A i \in 1..Len(h) : EntryOf(h[i]) = Null
    BY <1>4 DEF EntryFirst
  <2> QED BY <1>1, <1>4, <2>1, <2>2 DEF EntryFirst
<1> QED BY <1>2, <1>3, <1>4 DEF g

\* parse_line keeps a manifest a manifest, whose fields are those of its header.
LEMMA ParseLineKeeps ==
  ASSUME NEW x, ManifestType(x), HeaderInv(x), NEW line \in Line
  PROVE  ManifestType(parse_line(line, x)) /\ HeaderInv(parse_line(line, x))
<1> DEFINE y == parse_line(line, x)
<1>1. CASE x.sep_found
  <2>1. y = x \/ y = [x EXCEPT !.signatures = Append(@, line)]
    BY <1>1 DEF parse_line
  <2>2. /\ ManifestType(y) /\ y.hashed = x.hashed /\ y.branch_ok = x.branch_ok
        /\ y.date = x.date /\ y.priority = x.priority /\ y.entry = x.entry
        /\ y.image_hash = x.image_hash
    BY <2>1 DEF ManifestType
  <2> QED BY <2>2 DEF HeaderInv
<1>2. CASE ~x.sep_found /\ line = Separator
  <2>1. y = [x EXCEPT !.sep_found = TRUE]
    BY <1>2 DEF parse_line, ManifestType
  <2>2. /\ ManifestType(y) /\ y.hashed = x.hashed /\ y.branch_ok = x.branch_ok
        /\ y.date = x.date /\ y.priority = x.priority /\ y.entry = x.entry
        /\ y.image_hash = x.image_hash
    BY <2>1 DEF ManifestType
  <2> QED BY <2>2 DEF HeaderInv
<1>3. CASE ~x.sep_found /\ line # Separator
  <2> DEFINE f == Field(line)
  <2>0. x.sep_found = FALSE
    BY <1>3 DEF ManifestType
  <2>1. /\ ManifestType(y) /\ y.hashed = Append(x.hashed, line)
        /\ y.branch_ok = (x.branch_ok \/ f.key = "branch")
        /\ y.date = IF x.date = Null THEN ValueOf("date", line) ELSE x.date
        /\ y.priority = IF x.priority = Null THEN ValueOf("priority", line)
                        ELSE x.priority
        /\ y.entry = IF x.entry = Null THEN EntryOf(line) ELSE x.entry
        /\ IF f.key = "model" /\ x.entry = Null /\ f.hash # Null
           THEN y.image_hash = f.hash ELSE y.image_hash = x.image_hash
    BY <1>3, <2>0, ReadFieldIs
  <2> HIDE DEF y
  <2>2. x.hashed \in Seq(Line)
    BY DEF ManifestType
  <2>3. /\ Len(y.hashed) = Len(x.hashed) + 1 /\ y.hashed[Len(x.hashed) + 1] = line
        /\ \A i \in 1..Len(x.hashed) : y.hashed[i] = x.hashed[i]
        /\ Len(x.hashed) \in Nat
    BY <2>1, <2>2, AppendProperties
  <2>4. ASSUME y.branch_ok
        PROVE  \E i \in 1..Len(y.hashed) : Field(y.hashed[i]).key = "branch"
    <3>1. CASE x.branch_ok
      <4>1. PICK i \in 1..Len(x.hashed) : Field(x.hashed[i]).key = "branch"
        BY <3>1 DEF HeaderInv
      <4> QED BY <2>3, <4>1
    <3>2. CASE f.key = "branch"
      BY <2>3, <3>2
    <3>3. x.branch_ok \/ f.key = "branch"
      BY <2>1, <2>4
    <3> QED BY <3>1, <3>2, <3>3
  <2>5. GivenFirst(y.hashed, "date", y.date)
    BY <2>1, <2>2, GivenFirstAppend DEF HeaderInv
  <2>6. GivenFirst(y.hashed, "priority", y.priority)
    BY <2>1, <2>2, GivenFirstAppend DEF HeaderInv
  <2>7. EntryFirst(y.hashed, y.image_hash, y.entry)
    BY <2>1, <2>2, EntryFirstAppend DEF HeaderInv
  <2>8. ManifestType(y) /\ HeaderInv(y)
    BY <2>1, <2>4, <2>5, <2>6, <2>7 DEF HeaderInv
  <2> QED BY <2>8 DEF y
<1> QED BY <1>1, <1>2, <1>3

-------------------------------------------------------------------------------
(* The invariant                                                           *)

StageInv ==
  /\ stage # "done" => decision = Null
  /\ stage = "receive" => interrupted = FALSE

\* What was decided follows from the manifest.
DecisionInv ==
  decision = "upgrade" =>
    /\ Usable
    /\ node.force_version \/ Newer(node.old_version)

IInv ==
  /\ unread \in Line /\ buf \in Line
  /\ TypeOK
  /\ ManifestType(m) /\ HeaderInv(m)
  /\ StageInv
  /\ DecisionInv

LEMMA InitIInv == Init => IInv
<1> SUFFICES ASSUME Init PROVE IInv
  OBVIOUS
<1>1. unread \in Line /\ buf \in Line /\ Len(buf) = 0
  BY CheckAssumption DEF Init, Line
<1>2. ManifestType(m) /\ m.hashed = <<>>
  BY DEF Init, EmptyManifest, ManifestType
<1>3. HeaderInv(m)
  BY DEF Init, EmptyManifest, HeaderInv, GivenFirst, EntryFirst
<1>4. StageInv /\ DecisionInv
  BY CheckAssumption DEF Init, StageInv, DecisionInv, Decisions
<1>5. TypeOK
  <2>1. Len(buf) <= MAX_LINE_LENGTH
    BY <1>1, CheckAssumption
  <2> QED BY <1>2, <2>1 DEF Init, TypeOK, ManifestType
<1> QED BY <1>1, <1>2, <1>3, <1>4, <1>5 DEF IInv

\* A step that leaves manifest and node alone and decides d.
LEMMA DecideKeeps ==
  ASSUME IInv, NEW d \in Decisions, Decide(d),
         d = "upgrade" => Usable /\ (node.force_version \/ Newer(node.old_version))
  PROVE  IInv'
<1>1. /\ unread' = unread /\ buf' = buf /\ m' = m /\ interrupted' = interrupted
      /\ node' = node /\ stage' = "done" /\ decision' = d
  BY DEF Decide
<1>2. StageInv' /\ TypeOK'
  BY <1>1 DEF IInv, StageInv, TypeOK
<1>3. DecisionInv'
  BY <1>1 DEF DecisionInv, Usable, Newer
<1>4. ManifestType(m)' /\ HeaderInv(m)'
  BY <1>1 DEF IInv
<1> QED BY <1>1, <1>2, <1>3, <1>4 DEF IInv

LEMMA NextIInv == IInv /\ [Next]_vars => IInv'
<1> SUFFICES ASSUME IInv, [Next]_vars PROVE IInv'
  OBVIOUS
<1>0. Decisions = {"failed", "rejected", "nothing new", "not now", "upgrade"}
  BY DEF Decisions
<1>00. decision = Null => decision \notin Decisions
  BY CheckAssumption
<1>1. CASE Read
  <2>1. PICK n \in 1..(MAX_LINE_LENGTH - Len(buf)) :
          /\ n <= Len(unread)
          /\ buf' = CString(buf \o SubSeq(unread, 1, n))
          /\ unread' = SubSeq(unread, n + 1, Len(unread))
    BY <1>1 DEF Read
  <2>2. unread \in Line /\ buf \in Line /\ Len(buf) \in Nat /\ Len(unread) \in Nat
    BY DEF IInv, Line
  <2>3. n \in 1..Len(unread)
    BY <2>1, <2>2, CheckAssumption
  <2>4. /\ buf \o SubSeq(unread, 1, n) \in Line
        /\ Len(buf \o SubSeq(unread, 1, n)) = Len(buf) + n
        /\ unread' \in Line
    BY <2>1, <2>2, <2>3, ReadKeepsText
  <2>5. buf' \in Line /\ Len(buf') <= Len(buf) + n
    BY <2>1, <2>4, CStringIs
  <2>6. Len(buf') <= MAX_LINE_LENGTH
    BY <2>1, <2>2, <2>5, CheckAssumption DEF Line
  <2>7. UNCHANGED <<m, stage, interrupted, decision, node>>
    BY <1>1 DEF Read
  <2>8. TypeOK' /\ StageInv'
    BY <2>6, <2>7 DEF IInv, TypeOK, StageInv
  <2>9. DecisionInv'
    BY <2>7 DEF IInv, DecisionInv, Usable, Newer
  <2> QED BY <2>4, <2>5, <2>7, <2>8, <2>9 DEF IInv
<1>2. CASE ParseLine
  <2>1. /\ stage = "receive" /\ HasLine(buf)
        /\ m' = parse_line(FirstLine(buf), m) /\ buf' = BehindLine(buf)
        /\ UNCHANGED <<unread, stage, interrupted, decision, node>>
    BY <1>2 DEF ParseLine
  <2>2. unread \in Line /\ buf \in Line
    BY DEF IInv
  <2>3. FirstLine(buf) \in Line /\ buf' \in Line /\ Len(buf') <= Len(buf)
    BY <2>1, <2>2, LineOfConcat
  <2>4. ManifestType(m') /\ HeaderInv(m')
    BY <2>1, <2>3, ParseLineKeeps DEF IInv
  <2>5. Len(buf') <= MAX_LINE_LENGTH
    BY <2>2, <2>3, CheckAssumption DEF IInv, TypeOK, Line
  <2>6. TypeOK' /\ StageInv'
    BY <2>1, <2>4, <2>5 DEF IInv, TypeOK, StageInv, ManifestType
  <2>7. decision' # "upgrade"
    BY <1>0, <1>00, <2>1 DEF IInv, StageInv
  <2> QED BY <2>1, <2>2, <2>3, <2>4, <2>6, <2>7 DEF IInv, DecisionInv
<1>3. CASE Eof \/ Interrupt
  <2>1. /\ stage = "receive" /\ stage' = "check"
        /\ interrupted' \in BOOLEAN /\ UNCHANGED <<unread, buf, m, decision, node>>
    BY <1>3 DEF Eof, Interrupt, Waiting, IInv, TypeOK
  <2>2. TypeOK' /\ StageInv'
    BY <2>1 DEF IInv, TypeOK, StageInv
  <2>3. decision' # "upgrade"
    BY <1>0, <1>00, <2>1 DEF IInv, StageInv
  <2> QED BY <2>1, <2>2, <2>3 DEF IInv, DecisionInv
<1>4. CASE Error
  BY <1>0, <1>4, DecideKeeps DEF Error
<1>5. CASE Reject
  BY <1>0, <1>5, DecideKeeps DEF Reject
<1>6. CASE NothingNew
  BY <1>0, <1>6, DecideKeeps DEF NothingNew
<1>7. CASE NotNow
  BY <1>0, <1>7, DecideKeeps DEF NotNow
<1>8. CASE Upgrade
  BY <1>0, <1>8, DecideKeeps DEF Upgrade, Wanted
<1>9. CASE UNCHANGED vars
  BY <1>9 DEF vars, IInv, TypeOK, StageInv, DecisionInv, Usable, Newer
<1> QED BY <1>1, <1>2, <1>3, <1>4, <1>5, <1>6, <1>7, <1>8, <1>9 DEF Next, Step

\* IInv holds in every state.
THEOREM Invariance == Spec => []IInv
BY InitIInv, NextIInv, PTL DEF Spec

\* The variables have their types and the line buffer never overflows, however the
\* manifest is cut into pieces and whatever is in it.
THEOREM TypeCorrect == Spec => []TypeOK
<1>1. IInv => TypeOK
  BY DEF IInv
<1> QED BY <1>1, Invariance, PTL

\* A node upgrades only to what enough keys signed.
THEOREM UpgradeSigned == Spec => []UpgradeIsSigned
<1>1. IInv => UpgradeIsSigned
  <2> SUFFICES ASSUME IInv, decision = "upgrade" PROVE UpgradeIsSigned
    BY DEF UpgradeIsSigned
  <2>1. Usable /\ (node.force_version \/ Newer(node.old_version)) /\ HeaderInv(m)
    BY DEF IInv, DecisionInv
  <2>2. \E i \in 1..Len(m.hashed) :
          /\ Field(m.hashed[i]).key = "model"
          /\ Field(m.hashed[i]).entry = m.entry
          /\ Field(m.hashed[i]).hash = m.image_hash
          /\ \A k \in 1..(i - 1) : EntryOf(m.hashed[k]) = Null
    BY <2>1 DEF HeaderInv, EntryFirst, Usable, EntryOf
  <2> QED BY <2>1, <2>2 DEF UpgradeIsSigned, Usable, HeaderInv
<1> QED BY <1>1, Invariance, PTL

-------------------------------------------------------------------------------
(* Time                                                                    *)

\* No draw is below a probability of zero.
LEMMA NeverDue == ASSUME NEW random \in 0..RandMax PROVE ~Due(random, Never)
BY ScheduleAssumption DEF Due, Never

\* When random() can be below a probability.
LEMMA DueInTime ==
  ASSUME NEW diff \in Int, NEW uptime \in Nat, NEW span \in Span,
         NEW fallback \in BOOLEAN, NEW random \in 0..RandMax,
         Due(random, get_probability(diff, uptime, span, fallback))
  PROVE  /\ span # Infinite
         /\ diff < 0 => uptime >= 600
         /\ diff = 0 => span = NaN \/ span <= 0
         /\ diff >= 0 /\ fallback => span # NaN /\ diff >= span + Day
<1> DEFINE p == get_probability(diff, uptime, span, fallback)
<1>1. Day \in Nat /\ Day >= 1 /\ RandMax \in Nat /\ random \in Nat
      /\ NaN \notin Int /\ Infinite \notin Int /\ NaN # Infinite
  BY ScheduleAssumption
<1>2. p # Never /\ Due(random, p)
  BY NeverDue
<1>3. CASE diff < 0
  <2>1. uptime >= 600 /\ p = Power(span)
    BY <1>2, <1>3 DEF get_probability
  <2>2. span # Infinite
    BY <1>1, <1>2, <2>1 DEF Power
  <2> QED BY <1>3, <2>1, <2>2
<1>4. CASE diff >= 0 /\ fallback
  <2>1. Overdue(diff, span)
    BY <1>2, <1>4 DEF get_probability
  <2>2. span \in Int /\ diff >= span + Day
    BY <2>1 DEF Overdue
  <2>3. span # Infinite /\ span # NaN
    BY <1>1, <2>2
  <2>4. diff = 0 => span <= 0
    BY <1>1, <2>2
  <2> QED BY <1>4, <2>2, <2>3, <2>4
<1>5. CASE diff >= 0 /\ ~fallback
  <2>1. p = Rising(diff, span)
    BY <1>5 DEF get_probability
  <2>2. span # Infinite
    BY <1>1, <1>2, <2>1 DEF Rising
  <2>3. ASSUME diff = 0, span # NaN, ~(span <= 0) PROVE FALSE
    <3>1. span \in Nat /\ ~(diff >= span) /\ span # NaN /\ span # Infinite
      BY <1>1, <2>2, <2>3 DEF Span
    <3>2. p = Curve(0, span)
      BY <2>1, <2>3, <3>1 DEF Rising
    <3>3. span * span * span \in Nat /\ 0 * 0 * (3 * span - 2 * 0) = 0
      BY <3>1
    <3>4. p[1] = 0 /\ p[2] \in Nat
      BY <3>2, <3>3 DEF Curve
    <3> HIDE DEF p
    <3>5. random * p[2] >= 0 /\ random * p[2] \in Int /\ RandMax * p[1] = 0
      BY <1>1, <3>4
    <3> QED BY <1>2, <3>5 DEF Due
  <2> QED BY <1>5, <2>2, <2>3
<1> QED BY <1>3, <1>4, <1>5

\* A date is a number, and a priority whatever strtof can return; Null is what a line
\* without the one or the other gives.
NumbersInHeader ==
  \A line \in Line :
    /\ ValueOf("date", line) \in Int \cup {Null}
    /\ ValueOf("priority", line) \in Span \cup {Null}

LEMMA NumbersOfManifest ==
  ASSUME NumbersInHeader, NEW x, ManifestType(x), HeaderInv(x)
  PROVE  x.date \in Int \cup {Null} /\ x.priority \in Span \cup {Null}
<1>1. \A i \in 1..Len(x.hashed) : x.hashed[i] \in Line
  BY DEF ManifestType
<1> QED BY <1>1 DEF HeaderInv, GivenFirst, NumbersInHeader

LEMMA InTimeStep ==
  ASSUME NumbersInHeader, IInv, NotBeforeItsTime, [Next]_vars
  PROVE  NotBeforeItsTime'
<1>0. Decisions = {"failed", "rejected", "nothing new", "not now", "upgrade"}
  BY DEF Decisions
<1>1. CASE Upgrade
  <2> SUFFICES ASSUME ~node.force PROVE NotBeforeItsTime'
    BY <1>1 DEF Upgrade, Decide, NotBeforeItsTime
  <2>1. /\ Usable /\ m' = m /\ node' = node
        /\ \E random \in 0..RandMax : Due(random, Probability)
    BY <1>1 DEF Upgrade, Wanted, Decide
  <2>2. m.date \in Int /\ m.priority \in Span
    BY <2>1, NumbersOfManifest DEF IInv, Usable
  <2>3. node.now \in Int /\ node.uptime \in Nat /\ node.fallback \in BOOLEAN
    BY CheckAssumption DEF IInv, TypeOK, NodeRecord
  <2> DEFINE diff == node.now - m.date
  <2>4. diff \in Int
    BY <2>2, <2>3
  <2>5. PICK random \in 0..RandMax :
          Due(random, get_probability(diff, node.uptime, m.priority, node.fallback))
    BY <2>1 DEF Probability
  <2> HIDE DEF diff
  <2>6. /\ m.priority # Infinite
        /\ diff < 0 => node.uptime >= 600
        /\ diff = 0 => m.priority = NaN \/ m.priority <= 0
        /\ diff >= 0 /\ node.fallback => m.priority # NaN /\ diff >= m.priority + Day
    BY <2>2, <2>3, <2>4, <2>5, DueInTime
  <2> QED BY <2>1, <2>6 DEF NotBeforeItsTime, diff
<1>2. CASE ~Upgrade /\ Next
  <2>1. decision' = "upgrade" => FALSE
    <3>1. decision # "upgrade"
      <4>1. stage # "done"
        BY <1>2 DEF Next, Step, Read, ParseLine, Eof, Interrupt, Error, Waiting,
                    Reject, NothingNew, NotNow, Wanted
      <4> QED BY <1>0, <4>1, CheckAssumption DEF IInv, StageInv
    <3> QED BY <1>2, <3>1 DEF Next, Step, Read, ParseLine, Eof, Interrupt, Error,
              Reject, NothingNew, NotNow, Decide
  <2> QED BY <2>1 DEF NotBeforeItsTime
<1>3. CASE UNCHANGED vars
  BY <1>3 DEF vars, NotBeforeItsTime
<1> QED BY <1>1, <1>2, <1>3

\* No upgrade comes before its time, whatever the dates, clocks and priorities.
THEOREM InTime == ASSUME NumbersInHeader PROVE Spec => []NotBeforeItsTime
<1>1. Init => NotBeforeItsTime
  BY CheckAssumption DEF Init, NotBeforeItsTime, Decisions
<1>2. NotBeforeItsTime /\ IInv /\ [Next]_vars => NotBeforeItsTime'
  BY InTimeStep
<1> QED BY <1>1, <1>2, Invariance, PTL DEF Spec

-------------------------------------------------------------------------------
(* The text                                                                *)

complete == stage # "receive" /\ ~interrupted /\ decision # "failed"

LEMMA TextInit == Init => Text!Init
<1> SUFFICES ASSUME Init PROVE Text!Init
  OBVIOUS
<1>1. unread \in Seq(Characters) /\ <<>> \o unread = unread
  BY CheckAssumption, ConcatEmptySeq DEF Init
<1> QED BY <1>1 DEF Init, Text!Init, Text!EmptyManifest, EmptyManifest

LEMMA TextStep ==
  ASSUME IInv, IInv', [Next]_vars
  PROVE  [Text!Next]_Text!textVars
<1> USE DEF Text!textVars
<1>0. /\ unread \in Line /\ buf \in Line
      /\ Decisions = {"failed", "rejected", "nothing new", "not now", "upgrade"}
  BY DEF IInv, Decisions
<1>1. CASE Read
  <2>1. PICK n \in 1..(MAX_LINE_LENGTH - Len(buf)) :
          /\ n <= Len(unread)
          /\ buf' = CString(buf \o SubSeq(unread, 1, n))
          /\ unread' = SubSeq(unread, n + 1, Len(unread))
    BY <1>1 DEF Read
  <2> DEFINE a == buf \o SubSeq(unread, 1, n)
  <2>0. Len(buf) \in Nat /\ Len(unread) \in Nat
    <3>1. buf \in Seq(Characters) /\ unread \in Seq(Characters)
      BY <1>0 DEF Line
    <3> QED BY <3>1, LenProperties
  <2>2. n \in 1..Len(unread)
    BY <2>0, <2>1, CheckAssumption
  <2>3. a \in Line /\ unread' \in Line /\ a \o unread' = buf \o unread
    BY <1>0, <2>1, <2>2, ReadKeepsText
  <2>4. UNCHANGED <<m, stage, interrupted, decision, node>>
    BY <1>1 DEF Read
  <2>5. buf' = CString(a)
    BY <2>1
  <2> HIDE DEF a
  <2>6. CASE buf' = a
    BY <2>3, <2>4, <2>6
  <2>7. CASE \E i \in 1..Len(a) : a[i] = Nul /\ buf' = SubSeq(a, 1, i - 1)
    <3>1. PICK i \in 1..Len(a) : a[i] = Nul /\ buf' = SubSeq(a, 1, i - 1)
      BY <2>7
    <3> DEFINE text == a \o unread'
    <3>0. \A b \in Line :
            /\ i \in 1..Len(a \o b) /\ Len(a) \in i..Len(a \o b) /\ (a \o b)[i] = a[i]
            /\ SubSeq(a, 1, i - 1) \o b
                 = SubSeq(a \o b, 1, i - 1)
                     \o SubSeq(a \o b, Len(a) + 1, Len(a \o b))
      BY <2>3, CutFromText
    <3>2. /\ i \in 1..Len(text) /\ Len(a) \in i..Len(text) /\ text[i] = Nul
          /\ buf' \o unread' = SubSeq(text, 1, i - 1)
                                \o SubSeq(text, Len(a) + 1, Len(text))
      BY <2>3, <3>0, <3>1 DEF text
    <3>3. text = buf \o unread
      BY <2>3
    <3> HIDE DEF text
    <3>4. \E k \in 1..Len(text) : \E j \in k..Len(text) :
             /\ text[k] = Nul
             /\ buf' \o unread' = SubSeq(text, 1, k - 1)
                                  \o SubSeq(text, j + 1, Len(text))
      BY <3>2
    <3>5. Text!LoseBehindNul
      BY <2>4, <3>3, <3>4 DEF Text!LoseBehindNul
    <3> QED BY <3>5 DEF Text!Next
  <2> QED BY <2>3, <2>5, <2>6, <2>7, CStringIs
<1>2. CASE ParseLine
  <2>1. /\ stage = "receive" /\ HasLine(buf)
        /\ m' = parse_line(FirstLine(buf), m) /\ buf' = BehindLine(buf)
        /\ UNCHANGED <<unread, stage, interrupted, decision, node>>
    BY <1>2 DEF ParseLine
  <2>2. /\ HasLine(buf \o unread) /\ FirstLine(buf \o unread) = FirstLine(buf)
        /\ BehindLine(buf \o unread) = buf' \o unread
    BY <1>0, <2>1, LineOfConcat
  <2>3. Text!TakeLine
    BY <2>1, <2>2 DEF Text!TakeLine, Text!HasLine, Text!FirstLine, Text!BehindLine,
      Text!FirstNewline, Text!parse_line, Text!ReadField, HasLine, FirstLine,
      BehindLine, FirstNewline, parse_line, ReadField
  <2> QED BY <2>3 DEF Text!Next
<1>3. CASE Eof
  <2>1. /\ ~HasLine(buf) /\ unread = <<>> /\ stage' = "check"
        /\ UNCHANGED <<unread, buf, m, interrupted, decision, node>>
        /\ stage = "receive"
    BY <1>3 DEF Eof, Waiting
  <2>2. buf \o unread = buf
    BY <1>0, <2>1, ConcatEmptySeq DEF Line
  <2>3. decision = Null /\ interrupted = FALSE
    BY <2>1 DEF IInv, StageInv
  <2>4. complete' = TRUE
    BY <1>0, <2>1, <2>3, CheckAssumption DEF complete
  <2>5. Text!Finish
    BY <2>1, <2>2, <2>4 DEF Text!Finish, Text!HasLine, HasLine, complete
  <2> QED BY <2>5 DEF Text!Next
<1>4. CASE Interrupt
  <2>1. complete = FALSE /\ complete' = FALSE
    BY <1>4 DEF Interrupt, Waiting, complete
  <2> QED BY <1>4, <2>1 DEF Interrupt, complete
<1>5. CASE Error
  <2>1. complete = FALSE /\ complete' = FALSE
    BY <1>5 DEF Error, Decide, Waiting, complete
  <2> QED BY <1>5, <2>1 DEF Error, Decide, complete
<1>6. CASE Reject \/ NothingNew \/ NotNow \/ Upgrade
  <2>1. PICK d \in Decisions \ {"failed"} : Decide(d)
    BY <1>0, <1>6 DEF Reject, NothingNew, NotNow, Upgrade
  <2>2. stage = "check"
    BY <1>6 DEF Reject, NothingNew, NotNow, Upgrade, Wanted
  <2>3. decision = Null
    BY <2>2 DEF IInv, StageInv
  <2>4. complete' = complete
    BY <1>0, <2>1, <2>2, <2>3, CheckAssumption DEF Decide, complete
  <2> QED BY <2>1, <2>4 DEF Decide, complete
<1>7. CASE UNCHANGED vars
  BY <1>7 DEF vars
<1> QED BY <1>1, <1>2, <1>3, <1>4, <1>5, <1>6, <1>7 DEF Next, Step

\* The reader with its buffer implements the reader of whole lines: what a manifest
\* says does not depend on the pieces it arrives in.
THEOREM Implements == Spec => ImplementsText
BY TextInit, TextStep, Invariance, PTL DEF Spec, ImplementsText, Text!Spec
===============================================================================
