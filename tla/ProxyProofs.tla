----------------------------- MODULE ProxyProofs -----------------------------
(***************************************************************************)
(* Proofs about Proxy, for any number of processes, mirrors and redirects. *)
(*                                                                         *)
(* RunOK says of one process what its place in the code means for the      *)
(* reply: what was printed comes from mirrors up to the one in use, and a  *)
(* request that waits for its answer has printed nothing yet.  LockOK says *)
(* that the lock belongs to a process exactly while it works with it.      *)
(***************************************************************************)
EXTENDS Proxy, SequenceTheorems, TLAPS

Before == {"start", "query", "list"}
After  == {"free", "out_lock", "out", "ended", "dead"}

Run ==
  [pc : Before \cup {"next", "spider", "get", "body"} \cup After,
   lockless : BOOLEAN, redirects : 0..MAX_REDIRECTS, mirrors : 0..MaxMirrors,
   mirror : 0..MaxMirrors, chunks : 0..MaxChunks, success : BOOLEAN,
   output : Seq(Parts), pending : Seq(Parts), err : {0, HTTP_400, HTTP_503}]

UpTo(parts, n)  == \A i \in DOMAIN parts : parts[i].mirror <= n
Gives(parts, x) == \E i \in DOMAIN parts : parts[i] = x
OnlyHeaders(parts) == \A i \in DOMAIN parts : parts[i].part = "header"

RunOK(r) ==
  /\ r.mirror <= r.mirrors
  /\ r.pc \in Before => r.mirrors = 0
  /\ r.pc \in {"spider", "get", "body"} => r.mirror > 0
  /\ r.success => r.pc \in After
  /\ r.pc \in {"free", "out_lock", "out"} => r.success \/ r.mirror = r.mirrors
  /\ OnlyHeaders(r.pending)
  /\ UpTo(r.output, r.mirror) /\ UpTo(r.pending, r.mirror)
  /\ r.pc \in {"spider", "get"} =>
       UpTo(r.output, r.mirror - 1) /\ UpTo(r.pending, r.mirror - 1)
  /\ r.pc = "body" =>
       Gives(r.output, Header(r.mirror)) \/ Gives(r.pending, Header(r.mirror))

RunsOK ==
  /\ run \in [Proc -> Run]
  /\ \A p \in Proc : RunOK(run[p])

LockOK ==
  /\ lock \in Proc \cup {NoOne}
  /\ \A p \in Proc :
       /\ lock = p <=> Working(p) /\ ~run[p].lockless
       /\ run[p].pc = "start" => ~run[p].lockless

-------------------------------------------------------------------------------
(* The parts of the reply                                                  *)

LEMMA Joined ==
  ASSUME NEW s \in Seq(Parts), NEW t \in Seq(Parts)
  PROVE  /\ s \o t \in Seq(Parts)
         /\ \A n \in Int : UpTo(s \o t, n) <=> UpTo(s, n) /\ UpTo(t, n)
         /\ \A x : Gives(s \o t, x) <=> Gives(s, x) \/ Gives(t, x)
<1>1. /\ s \o t \in Seq(Parts)
      /\ DOMAIN (s \o t) = 1..(Len(s) + Len(t))
      /\ \A i \in 1..Len(s) : (s \o t)[i] = s[i]
      /\ \A i \in 1..Len(t) : (s \o t)[Len(s) + i] = t[i]
  OBVIOUS
<1>2. /\ DOMAIN s = 1..Len(s) /\ DOMAIN t = 1..Len(t)
      /\ Len(s) \in Nat /\ Len(t) \in Nat
  OBVIOUS
<1>3. ASSUME NEW i \in DOMAIN (s \o t)
      PROVE  (\E k \in DOMAIN s : (s \o t)[i] = s[k])
               \/ (\E k \in DOMAIN t : (s \o t)[i] = t[k])
  <2>1. CASE i <= Len(s)
    BY <1>1, <1>2, <2>1
  <2>2. CASE i > Len(s)
    <3>1. i - Len(s) \in DOMAIN t /\ i = Len(s) + (i - Len(s))
      BY <1>1, <1>2, <2>2
    <3>2. QED
      BY <1>1, <1>2, <3>1
  <2>3. QED
    BY <1>1, <1>2, <2>1, <2>2
<1>4. ASSUME NEW k \in DOMAIN s
      PROVE  k \in DOMAIN (s \o t) /\ (s \o t)[k] = s[k]
  BY <1>1, <1>2
<1>5. ASSUME NEW k \in DOMAIN t
      PROVE  Len(s) + k \in DOMAIN (s \o t) /\ (s \o t)[Len(s) + k] = t[k]
  BY <1>1, <1>2
<1>6. ASSUME NEW n \in Int
      PROVE  UpTo(s \o t, n) <=> UpTo(s, n) /\ UpTo(t, n)
  BY <1>3, <1>4, <1>5 DEF UpTo
<1>7. ASSUME NEW x
      PROVE  Gives(s \o t, x) <=> Gives(s, x) \/ Gives(t, x)
  BY <1>3, <1>4, <1>5 DEF Gives
<1>8. QED
  BY <1>1, <1>6, <1>7

LEMMA One ==
  ASSUME NEW x \in Parts
  PROVE  /\ <<x>> \in Seq(Parts)
         /\ \A n \in Int : UpTo(<<x>>, n) <=> x.mirror <= n
         /\ Gives(<<x>>, x)
         /\ OnlyHeaders(<<x>>) <=> x.part = "header"
<1> DEFINE s == <<x>>
<1>1. s \in Seq(Parts) /\ s[1] = x
  OBVIOUS
<1>2. DOMAIN s = {1}
  <2>1. DOMAIN s = 1..Len(s) /\ Len(s) = 1
    BY <1>1
  <2>2. QED
    BY <2>1
<1> HIDE DEF s
<1>3. \A n \in Int : UpTo(s, n) <=> x.mirror <= n
  BY <1>1, <1>2 DEF UpTo
<1>4. Gives(s, x) /\ (OnlyHeaders(s) <=> x.part = "header")
  BY <1>1, <1>2 DEF Gives, OnlyHeaders
<1>5. QED
  BY <1>1, <1>3, <1>4 DEF s

LEMMA Nothing ==
  /\ <<>> \in Seq(Parts)
  /\ \A n \in Int : UpTo(<<>>, n)
  /\ OnlyHeaders(<<>>)
BY DEF UpTo, OnlyHeaders

LEMMA Higher ==
  ASSUME NEW s \in Seq(Parts), NEW n \in Int, NEW k \in Int, n <= k, UpTo(s, n)
  PROVE  UpTo(s, k)
<1>1. ASSUME NEW i \in DOMAIN s PROVE s[i].mirror \in Int
  <2>1. s[i] \in Parts
    BY ElementOfSeq, LenProperties
  <2>2. QED
    BY <2>1, ProxyAssumption DEF Parts
<1>2. QED
  BY <1>1 DEF UpTo

LEMMA Appended ==
  ASSUME NEW s \in Seq(Parts), NEW x \in Parts
  PROVE  Append(s, x) = s \o <<x>>
OBVIOUS

\* Headers in the buffer stay headers.
LEMMA HeaderAppended ==
  ASSUME NEW s \in Seq(Parts), NEW x \in Parts, OnlyHeaders(s), x.part = "header"
  PROVE  OnlyHeaders(Append(s, x))
BY DEF OnlyHeaders

-------------------------------------------------------------------------------
(* The invariant of each process                                           *)

\* The state of a process changes, all the others stay as they are.
LEMMA OneRun ==
  ASSUME RunsOK, NEW p \in Proc, NEW r \in Run, RunOK(r),
         Becomes(p, r)
  PROVE  RunsOK'
<1>1. run' \in [Proc -> Run]
  BY DEF RunsOK, Becomes
<1>2. ASSUME NEW q \in Proc PROVE RunOK(run'[q])
  <2>1. run'[q] = IF q = p THEN r ELSE run[q]
    BY DEF RunsOK, Becomes
  <2>2. QED
    BY <2>1 DEF RunsOK
<1>3. QED
  BY <1>1, <1>2 DEF RunsOK, RunOK

LEMMA RunStart == Init => RunsOK
<1>1. SUFFICES ASSUME Init PROVE RunsOK
  OBVIOUS
<1>2. run \in [Proc -> Run]
  BY <1>1, ProxyAssumption, Nothing DEF Init, Run, Before
<1>3. ASSUME NEW p \in Proc PROVE RunOK(run[p])
  <2>1. /\ run[p].pc = "start" /\ run[p].mirrors = 0 /\ run[p].mirror = 0
        /\ ~run[p].success /\ run[p].output = <<>> /\ run[p].pending = <<>>
    BY <1>1 DEF Init
  <2>2. QED
    BY <2>1, Nothing DEF RunOK, Before
<1>4. QED
  BY <1>2, <1>3 DEF RunsOK

\* Steps of main() that leave the reply and the mirrors alone.
LEMMA RunStepMain ==
  ASSUME RunsOK, NEW p \in Proc,
         \/ OpenFails(p) \/ Acquire(p) \/ Busy(p) \/ Unlock(p)
         \/ BadQuery(p) \/ GoodQuery(p) \/ NoMirrorlist(p)
         \/ NoMirrorLeft(p) \/ Free(p)
  PROVE  RunsOK'
<1>1. run[p] \in Run /\ RunOK(run[p])
  BY DEF RunsOK
<1>2. CASE OpenFails(p)
  <2> DEFINE Then(s) == [s EXCEPT !.pc = "query", !.lockless = TRUE]
  <2>1. ASSUME NEW s \in Run, RunOK(s), s.pc = "start"
        PROVE  Then(s) \in Run /\ RunOK(Then(s))
    <3>1. Then(s) \in Run
      BY <2>1 DEF Run, Before
    <3>2. RunOK(Then(s))
      BY <2>1 DEF Run, RunOK, Before, After
    <3>3. QED
      BY <3>1, <3>2
  <2>2. run[p].pc = "start"
    BY <1>2 DEF OpenFails
  <2>3. Becomes(p, Then(run[p]))
    BY <1>2 DEF OpenFails
  <2>4. QED
    BY <1>1, <2>1, <2>2, <2>3, OneRun, Zenon
<1>3. CASE Acquire(p)
  <2> DEFINE Then(s) == [s EXCEPT !.pc = "query"]
  <2>1. ASSUME NEW s \in Run, RunOK(s), s.pc = "start"
        PROVE  Then(s) \in Run /\ RunOK(Then(s))
    <3>1. Then(s) \in Run
      BY <2>1 DEF Run, Before
    <3>2. RunOK(Then(s))
      BY <2>1 DEF Run, RunOK, Before, After
    <3>3. QED
      BY <3>1, <3>2
  <2>2. run[p].pc = "start"
    BY <1>3 DEF Acquire
  <2>3. Becomes(p, Then(run[p]))
    BY <1>3 DEF Acquire
  <2>4. QED
    BY <1>1, <2>1, <2>2, <2>3, OneRun, Zenon
<1>4. CASE Busy(p)
  <2> DEFINE Then(s) == [s EXCEPT !.pc = "out", !.err = HTTP_503]
  <2>1. ASSUME NEW s \in Run, RunOK(s), s.pc = "start"
        PROVE  Then(s) \in Run /\ RunOK(Then(s))
    <3>1. Then(s) \in Run
      BY <2>1 DEF Run, After
    <3>2. RunOK(Then(s))
      BY <2>1 DEF Run, RunOK, Before, After
    <3>3. QED
      BY <3>1, <3>2
  <2>2. run[p].pc = "start"
    BY <1>4 DEF Busy
  <2>3. Becomes(p, Then(run[p]))
    BY <1>4 DEF Busy
  <2>4. QED
    BY <1>1, <2>1, <2>2, <2>3, OneRun, Zenon
<1>5. CASE Unlock(p)
  <2> DEFINE Then(s) == [s EXCEPT !.pc = "out"]
  <2>1. ASSUME NEW s \in Run, RunOK(s), s.pc = "out_lock"
        PROVE  Then(s) \in Run /\ RunOK(Then(s))
    <3>1. Then(s) \in Run
      BY <2>1 DEF Run, After
    <3>2. RunOK(Then(s))
      BY <2>1 DEF Run, RunOK, Before, After
    <3>3. QED
      BY <3>1, <3>2
  <2>2. run[p].pc = "out_lock"
    BY <1>5 DEF Unlock
  <2>3. Becomes(p, Then(run[p]))
    BY <1>5 DEF Unlock
  <2>4. QED
    BY <1>1, <2>1, <2>2, <2>3, OneRun, Zenon
<1>6. CASE BadQuery(p)
  <2> DEFINE Then(s) == [s EXCEPT !.pc = "out_lock", !.err = HTTP_400]
  <2>1. ASSUME NEW s \in Run, RunOK(s), s.pc = "query"
        PROVE  Then(s) \in Run /\ RunOK(Then(s))
    <3>1. Then(s) \in Run
      BY <2>1 DEF Run, After
    <3>2. RunOK(Then(s))
      BY <2>1 DEF Run, RunOK, Before, After
    <3>3. QED
      BY <3>1, <3>2
  <2>2. run[p].pc = "query"
    BY <1>6 DEF BadQuery
  <2>3. Becomes(p, Then(run[p]))
    BY <1>6 DEF BadQuery
  <2>4. QED
    BY <1>1, <2>1, <2>2, <2>3, OneRun, Zenon
<1>7. CASE GoodQuery(p)
  <2> DEFINE Then(s) == [s EXCEPT !.pc = "list"]
  <2>1. ASSUME NEW s \in Run, RunOK(s), s.pc = "query"
        PROVE  Then(s) \in Run /\ RunOK(Then(s))
    <3>1. Then(s) \in Run
      BY <2>1 DEF Run, Before
    <3>2. RunOK(Then(s))
      BY <2>1 DEF Run, RunOK, Before, After
    <3>3. QED
      BY <3>1, <3>2
  <2>2. run[p].pc = "query"
    BY <1>7 DEF GoodQuery
  <2>3. Becomes(p, Then(run[p]))
    BY <1>7 DEF GoodQuery
  <2>4. QED
    BY <1>1, <2>1, <2>2, <2>3, OneRun, Zenon
<1>8. CASE NoMirrorlist(p)
  <2> DEFINE Then(s) == [s EXCEPT !.pc = "out_lock"]
  <2>1. ASSUME NEW s \in Run, RunOK(s), s.pc = "list"
        PROVE  Then(s) \in Run /\ RunOK(Then(s))
    <3>1. Then(s) \in Run
      BY <2>1 DEF Run, After
    <3>2. RunOK(Then(s))
      BY <2>1 DEF Run, RunOK, Before, After
    <3>3. QED
      BY <3>1, <3>2
  <2>2. run[p].pc = "list"
    BY <1>8 DEF NoMirrorlist
  <2>3. Becomes(p, Then(run[p]))
    BY <1>8 DEF NoMirrorlist
  <2>4. QED
    BY <1>1, <2>1, <2>2, <2>3, OneRun, Zenon
<1>9. CASE NoMirrorLeft(p)
  <2> DEFINE Then(s) == [s EXCEPT !.pc = "free"]
  <2>1. ASSUME NEW s \in Run, RunOK(s), s.pc = "next", s.mirror = s.mirrors
        PROVE  Then(s) \in Run /\ RunOK(Then(s))
    <3>1. Then(s) \in Run
      BY <2>1 DEF Run, After
    <3>2. RunOK(Then(s))
      BY <2>1 DEF Run, RunOK, Before, After
    <3>3. QED
      BY <3>1, <3>2
  <2>2. run[p].pc = "next" /\ run[p].mirror = run[p].mirrors
    BY <1>9 DEF NoMirrorLeft
  <2>3. Becomes(p, Then(run[p]))
    BY <1>9 DEF NoMirrorLeft
  <2>4. QED
    BY <1>1, <2>1, <2>2, <2>3, OneRun, Zenon
<1>10. CASE Free(p)
  <2> DEFINE Then(s) == [s EXCEPT !.pc = "out_lock"]
  <2>1. ASSUME NEW s \in Run, RunOK(s), s.pc = "free"
        PROVE  Then(s) \in Run /\ RunOK(Then(s))
    <3>1. Then(s) \in Run
      BY <2>1 DEF Run, After
    <3>2. RunOK(Then(s))
      BY <2>1 DEF Run, RunOK, Before, After
    <3>3. QED
      BY <3>1, <3>2
  <2>2. run[p].pc = "free"
    BY <1>10 DEF Free
  <2>3. Becomes(p, Then(run[p]))
    BY <1>10 DEF Free
  <2>4. QED
    BY <1>1, <2>1, <2>2, <2>3, OneRun, Zenon
<1>11. QED
  BY <1>2, <1>3, <1>4, <1>5, <1>6, <1>7, <1>8, <1>9, <1>10

\* Steps from mirror to mirror.
LEMMA RunStepMirrors ==
  ASSUME RunsOK, NEW p \in Proc,
         \/ GetMirrorlist(p) \/ SkipMirror(p) \/ SpiderMirror(p)
         \/ Redirect(p)
  PROVE  RunsOK'
<1>1. run[p] \in Run /\ RunOK(run[p])
  BY DEF RunsOK
<1>2. CASE GetMirrorlist(p)
  <2>0. PICK n \in 0..MaxMirrors :
          Becomes(p, [run[p] EXCEPT !.pc = "next", !.mirrors = n])
    BY <1>2 DEF GetMirrorlist
  <2> DEFINE Then(s) == [s EXCEPT !.pc = "next", !.mirrors = n]
  <2>1. ASSUME NEW s \in Run, RunOK(s), s.pc = "list"
        PROVE  Then(s) \in Run /\ RunOK(Then(s))
    <3>1. Then(s) \in Run
      BY <2>1 DEF Run, Before
    <3>2. RunOK(Then(s))
      BY <2>1, ProxyAssumption DEF Run, RunOK, Before, After
    <3>3. QED
      BY <3>1, <3>2
  <2>2. run[p].pc = "list"
    BY <1>2, <2>0 DEF GetMirrorlist
  <2>3. Becomes(p, Then(run[p]))
    BY <1>2, <2>0 DEF GetMirrorlist
  <2>4. QED
    BY <1>1, <2>1, <2>2, <2>3, OneRun, Zenon
<1>3. CASE SkipMirror(p)
  <2> DEFINE Then(s) == [s EXCEPT !.mirror = @ + 1]
  <2>1. ASSUME NEW s \in Run, RunOK(s), s.pc = "next", s.mirror < s.mirrors
        PROVE  Then(s) \in Run /\ RunOK(Then(s))
    <3>0. UpTo(s.output, s.mirror + 1) /\ UpTo(s.pending, s.mirror + 1)
      BY <2>1, Higher, ProxyAssumption DEF Run, RunOK
    <3>. s.mirror + 1 \in 0..MaxMirrors /\ s.mirror + 1 <= s.mirrors
      BY <2>1, ProxyAssumption DEF Run
    <3>1. Then(s) \in Run
      BY <2>1 DEF Run, Before
    <3>2. RunOK(Then(s))
      BY <2>1, <3>0, ProxyAssumption DEF Run, RunOK, Before, After
    <3>3. QED
      BY <3>1, <3>2
  <2>2. run[p].pc = "next" /\ run[p].mirror < run[p].mirrors
    BY <1>3 DEF SkipMirror
  <2>3. Becomes(p, Then(run[p]))
    BY <1>3 DEF SkipMirror
  <2>4. QED
    BY <1>1, <2>1, <2>2, <2>3, OneRun, Zenon
<1>4. CASE SpiderMirror(p)
  <2> DEFINE Then(s) == [s EXCEPT !.pc = "spider", !.mirror = @ + 1]
  <2>1. ASSUME NEW s \in Run, RunOK(s), s.pc = "next", s.mirror < s.mirrors
        PROVE  Then(s) \in Run /\ RunOK(Then(s))
    <3>0. UpTo(s.output, s.mirror + 1) /\ UpTo(s.pending, s.mirror + 1)
      BY <2>1, Higher, ProxyAssumption DEF Run, RunOK
    <3>. s.mirror + 1 \in 0..MaxMirrors /\ s.mirror + 1 <= s.mirrors
      BY <2>1, ProxyAssumption DEF Run
    <3>1. Then(s) \in Run
      BY <2>1 DEF Run, Before
    <3>2. RunOK(Then(s))
      BY <2>1, <3>0, ProxyAssumption DEF Run, RunOK, Before, After
    <3>3. QED
      BY <3>1, <3>2
  <2>2. run[p].pc = "next" /\ run[p].mirror < run[p].mirrors
    BY <1>4 DEF SpiderMirror
  <2>3. Becomes(p, Then(run[p]))
    BY <1>4 DEF SpiderMirror
  <2>4. QED
    BY <1>1, <2>1, <2>2, <2>3, OneRun, Zenon
<1>5. CASE Redirect(p)
  <2> DEFINE Then(s) == [s EXCEPT !.redirects = @ + 1]
  <2>1. ASSUME NEW s \in Run, RunOK(s), s.pc \in {"spider", "get"},
               s.redirects < MAX_REDIRECTS
        PROVE  Then(s) \in Run /\ RunOK(Then(s))
    <3>. s.redirects + 1 \in 0..MAX_REDIRECTS
      BY <2>1, ProxyAssumption DEF Run
    <3>1. Then(s) \in Run
      BY <2>1 DEF Run, Before
    <3>2. RunOK(Then(s))
      BY <2>1 DEF Run, RunOK, Before, After
    <3>3. QED
      BY <3>1, <3>2
  <2>2. run[p].pc \in {"spider", "get"} /\ run[p].redirects < MAX_REDIRECTS
    BY <1>5 DEF Redirect
  <2>3. Becomes(p, Then(run[p]))
    BY <1>5 DEF Redirect
  <2>4. QED
    BY <1>1, <2>1, <2>2, <2>3, OneRun, Zenon
<1>6. QED
  BY <1>2, <1>3, <1>4, <1>5

\* Steps that change the reply.
LEMMA RunStepReply ==
  ASSUME RunsOK, NEW p \in Proc,
         \/ Exit(p) \/ Found(p) \/ Answered(p) \/ Data(p) \/ Eof(p)
         \/ Fail(p) \/ Dies(p)
  PROVE  RunsOK'
<1>1. run[p] \in Run /\ RunOK(run[p])
  BY DEF RunsOK
<1>2. CASE Exit(p)
  <2> DEFINE Then(s, sent) == [s EXCEPT !.pc = "ended", !.redirects = 0,
                                        !.output = sent, !.pending = <<>>]
             all == run[p].output \o run[p].pending
  <2>1. ASSUME NEW s \in Run, RunOK(s),
               NEW sent \in Seq(Parts), UpTo(sent, s.mirror)
        PROVE  Then(s, sent) \in Run /\ RunOK(Then(s, sent))
    <3>. 0 \in 0..MAX_REDIRECTS
      BY ProxyAssumption
    <3>1. Then(s, sent) \in Run
      BY Nothing DEF Run, After
    <3>2. RunOK(Then(s, sent))
      BY <2>1, Nothing DEF Run, RunOK, Before, After
    <3>3. QED
      BY <3>1, <3>2
  <2>2. all \in Seq(Parts) /\ UpTo(all, run[p].mirror)
    <3>1. /\ run[p].output \in Seq(Parts) /\ run[p].pending \in Seq(Parts)
          /\ run[p].mirror \in Int
      BY <1>1 DEF Run
    <3>2. QED
      BY <1>1, <3>1, Joined DEF RunOK
  <2>3. Becomes(p, Then(run[p], all))
    BY <1>2 DEF Exit
  <2>4. QED
    BY <1>1, <2>1, <2>2, <2>3, OneRun, Zenon
<1>3. CASE Found(p)
  <2>0. PICK next \in {"get", "next"} : Becomes(p, [run[p] EXCEPT !.pc = next])
    BY <1>3 DEF Found
  <2> DEFINE Then(s) == [s EXCEPT !.pc = next]
  <2>1. ASSUME NEW s \in Run, RunOK(s), s.pc = "spider"
        PROVE  Then(s) \in Run /\ RunOK(Then(s))
    <3>1. Then(s) \in Run
      BY <2>1 DEF Run, Before
    <3>2. RunOK(Then(s))
      BY <2>1 DEF Run, RunOK, Before, After
    <3>3. QED
      BY <3>1, <3>2
  <2>2. run[p].pc = "spider"
    BY <1>3, <2>0 DEF Found
  <2>3. Becomes(p, Then(run[p]))
    BY <1>3, <2>0 DEF Found
  <2>4. QED
    BY <1>1, <2>1, <2>2, <2>3, OneRun, Zenon
<1>4. CASE Answered(p)
  <2> DEFINE Then(s, buffer) == [s EXCEPT !.pc = "body", !.pending = buffer]
             h == Header(run[p].mirror)
             longer == Append(run[p].pending, h)
  <2>1. ASSUME NEW s \in Run, RunOK(s), s.pc = "get",
               NEW buffer \in Seq(Parts), OnlyHeaders(buffer),
               UpTo(buffer, s.mirror), Gives(buffer, Header(s.mirror))
        PROVE  Then(s, buffer) \in Run /\ RunOK(Then(s, buffer))
    <3>1. Then(s, buffer) \in Run
      BY DEF Run
    <3>2. RunOK(Then(s, buffer))
      BY <2>1 DEF Run, RunOK, Before, After
    <3>3. QED
      BY <3>1, <3>2
  <2>2. run[p].pc = "get" /\ Becomes(p, Then(run[p], longer))
    BY <1>4 DEF Answered
  <2>3. /\ run[p].pending \in Seq(Parts) /\ run[p].mirror \in Int
        /\ h \in Parts /\ h.mirror = run[p].mirror /\ h.part = "header"
    BY <1>1, <2>2, ProxyAssumption DEF Run, RunOK, Header, Parts
  <2>4. longer \in Seq(Parts) /\ OnlyHeaders(longer)
    BY <1>1, <2>3, HeaderAppended DEF RunOK
  <2>5. longer = run[p].pending \o <<h>>
    BY <2>3, Appended
  <2>6. UpTo(longer, run[p].mirror) /\ Gives(longer, h)
    <3>1. UpTo(run[p].pending, run[p].mirror)
      BY <1>1 DEF RunOK
    <3>2. <<h>> \in Seq(Parts) /\ UpTo(<<h>>, run[p].mirror) /\ Gives(<<h>>, h)
      <4>1. run[p].mirror <= run[p].mirror
        BY <2>3
      <4>2. QED
        BY <2>3, <4>1, One
    <3> DEFINE one == <<h>>
    <3>3. one \in Seq(Parts) /\ UpTo(one, run[p].mirror) /\ Gives(one, h)
      BY <3>2
    <3>4. longer = run[p].pending \o one
      BY <2>5
    <3> HIDE DEF one, longer
    <3>5. QED
      BY <2>3, <3>1, <3>3, <3>4, Joined
  <2>7. QED
    BY <1>1, <2>1, <2>2, <2>4, <2>6, OneRun, Zenon
<1>5. CASE Data(p)
  <2> DEFINE Then(s, count, sent) ==
               [s EXCEPT !.chunks = count, !.pending = <<>>, !.output = sent]
             h == Header(run[p].mirror)
             c == Chunk(run[p].mirror)
             all == run[p].output \o run[p].pending
  <2>1. ASSUME NEW s \in Run, RunOK(s), s.pc = "body",
               NEW count \in 0..MaxChunks, NEW sent \in Seq(Parts),
               UpTo(sent, s.mirror), Gives(sent, Header(s.mirror))
        PROVE  Then(s, count, sent) \in Run /\ RunOK(Then(s, count, sent))
    <3>1. Then(s, count, sent) \in Run
      BY Nothing DEF Run
    <3>2. RunOK(Then(s, count, sent))
      BY <2>1, Nothing DEF Run, RunOK, Before, After
    <3>3. QED
      BY <3>1, <3>2
  <2>2. PICK data \in {<<>>, <<c>>} :
          /\ run[p].chunks + Len(data) <= MaxChunks
          /\ Becomes(p, Then(run[p], run[p].chunks + Len(data), all \o data))
    BY <1>5 DEF Data
  <2>3. run[p].pc = "body"
    BY <1>5 DEF Data
  <2>4. /\ run[p].output \in Seq(Parts) /\ run[p].pending \in Seq(Parts)
        /\ run[p].mirror \in Int /\ run[p].chunks \in Nat
        /\ c \in Parts /\ c.mirror <= run[p].mirror
    BY <1>1, <2>3, ProxyAssumption DEF Run, RunOK, Chunk, Parts
  <2>5. data \in Seq(Parts) /\ UpTo(data, run[p].mirror)
    BY <2>4, One, Nothing
  <2>6. run[p].chunks + Len(data) \in 0..MaxChunks
    BY <2>2, <2>4, <2>5, ProxyAssumption
  <2>7. /\ all \in Seq(Parts) /\ UpTo(all, run[p].mirror) /\ Gives(all, h)
    BY <1>1, <2>3, <2>4, Joined DEF RunOK
  <2>8. /\ all \o data \in Seq(Parts) /\ UpTo(all \o data, run[p].mirror)
        /\ Gives(all \o data, h)
    <3> HIDE DEF all
    <3>1. QED
      BY <2>4, <2>5, <2>7, Joined
  <2>9. QED
    BY <1>1, <2>1, <2>2, <2>3, <2>6, <2>8, OneRun, Zenon
<1>6. CASE Eof(p)
  <2> DEFINE Then(s) == [s EXCEPT !.pc = "free", !.chunks = 0, !.success = TRUE]
  <2>1. ASSUME NEW s \in Run, RunOK(s), s.pc \in {"get", "body"}
        PROVE  Then(s) \in Run /\ RunOK(Then(s))
    <3>. 0 \in 0..MaxChunks /\ 0 \in 0..MAX_REDIRECTS
      BY ProxyAssumption
    <3>1. Then(s) \in Run
      BY <2>1 DEF Run, After
    <3>2. RunOK(Then(s))
      BY <2>1 DEF Run, RunOK, Before, After
    <3>3. QED
      BY <3>1, <3>2
  <2>2. run[p].pc \in {"get", "body"}
    BY <1>6 DEF Eof
  <2>3. Becomes(p, Then(run[p]))
    BY <1>6 DEF Eof
  <2>4. QED
    BY <1>1, <2>1, <2>2, <2>3, OneRun, Zenon
<1>7. CASE Fail(p)
  <2> DEFINE Then(s) == [s EXCEPT !.pc = "next", !.chunks = 0]
  <2>1. ASSUME NEW s \in Run, RunOK(s), s.pc \in {"spider", "get", "body"}
        PROVE  Then(s) \in Run /\ RunOK(Then(s))
    <3>. 0 \in 0..MaxChunks /\ 0 \in 0..MAX_REDIRECTS
      BY ProxyAssumption
    <3>1. Then(s) \in Run
      BY <2>1 DEF Run, Before
    <3>2. RunOK(Then(s))
      BY <2>1 DEF Run, RunOK, Before, After
    <3>3. QED
      BY <3>1, <3>2
  <2>2. run[p].pc \in {"spider", "get", "body"}
    BY <1>7 DEF Fail
  <2>3. Becomes(p, Then(run[p]))
    BY <1>7 DEF Fail
  <2>4. QED
    BY <1>1, <2>1, <2>2, <2>3, OneRun, Zenon
<1>8. CASE Dies(p)
  <2> DEFINE Then(s) == [s EXCEPT !.pc = "dead", !.redirects = 0, !.chunks = 0,
                                  !.pending = <<>>]
  <2>1. ASSUME NEW s \in Run, RunOK(s)
        PROVE  Then(s) \in Run /\ RunOK(Then(s))
    <3>. 0 \in 0..MaxChunks /\ 0 \in 0..MAX_REDIRECTS
      BY ProxyAssumption
    <3>1. Then(s) \in Run
      BY <2>1, Nothing DEF Run, After
    <3>2. RunOK(Then(s))
      BY <2>1, Nothing DEF Run, RunOK, Before, After
    <3>3. QED
      BY <3>1, <3>2
  <2>3. Becomes(p, Then(run[p]))
    BY <1>8 DEF Dies
  <2>4. QED
    BY <1>1, <2>1, <2>3, OneRun, Zenon
<1>9. QED
  BY <1>2, <1>3, <1>4, <1>5, <1>6, <1>7, <1>8

LEMMA RunStep ==
  ASSUME RunsOK, NEW p \in Proc, Step(p) \/ Killed(p)
  PROVE  RunsOK'
<1>1. CASE Dies(p)
  BY <1>1, RunStepReply
<1>2. CASE Step(p) /\ ~Dies(p)
  BY <1>2, RunStepMain, RunStepMirrors, RunStepReply
     DEF Step, BrokenQuery, FreeCrashes
<1>3. QED
  BY <1>1, <1>2 DEF Killed

LEMMA RunStutter == RunsOK /\ UNCHANGED vars => RunsOK'
BY DEF RunsOK, RunOK, vars

-------------------------------------------------------------------------------
(* The lock                                                                *)

LEMMA NowIs ==
  ASSUME RunsOK, NEW p \in Proc, NEW r, Becomes(p, r)
  PROVE  run'[p] = r /\ \A q \in Proc : q # p => run'[q] = run[q]
BY DEF RunsOK, Becomes

LEMMA OnlyOne ==
  ASSUME RunsOK, NEW p \in Proc, Step(p) \/ Killed(p)
  PROVE  \A q \in Proc : q # p => run'[q] = run[q]
BY NowIs
   DEF Step, Killed, OpenFails, Acquire, Busy, Unlock, Exit, BadQuery, BrokenQuery,
       GoodQuery, NoMirrorlist, GetMirrorlist, SkipMirror, SpiderMirror, NoMirrorLeft,
       Free, FreeCrashes, Redirect, Found, Answered, Data, Eof, Fail, Dies

\* What a step of p may do to the lock: nothing, as long as p goes on to hold it
\* or not; take it, when it is free; give it back, or what is not held.
LEMMA LockMoves ==
  ASSUME LockOK, NEW p \in Proc, NEW r, run'[p] = r, r.pc # "start",
         \A q \in Proc : q # p => run'[q] = run[q],
         \/ lock' = lock /\ ((Working(p) /\ ~run[p].lockless)
                               <=> (Working(p)' /\ ~r.lockless))
         \/ lock = NoOne /\ lock' = p /\ Working(p)' /\ ~r.lockless
         \/ lock' = (IF lock = p THEN NoOne ELSE lock)
              /\ ~(Working(p)' /\ ~r.lockless)
  PROVE  LockOK'
<1>1. lock' \in Proc \cup {NoOne}
  BY DEF LockOK
<1>2. ASSUME NEW q \in Proc
      PROVE  /\ lock' = q <=> Working(q)' /\ ~run'[q].lockless
             /\ run'[q].pc = "start" => ~run'[q].lockless
  <2>1. CASE q = p
    BY <2>1, ProxyAssumption DEF LockOK
  <2>2. CASE q # p
    <3>1. run'[q] = run[q] /\ (Working(q)' <=> Working(q))
      BY <2>2 DEF Working
    <3>2. QED
      BY <2>2, <3>1, ProxyAssumption DEF LockOK
  <2>3. QED
    BY <2>1, <2>2
<1>3. QED
  BY <1>1, <1>2 DEF LockOK

LEMMA LockStart == Init => LockOK
BY ProxyAssumption DEF Init, LockOK, Working

\* No step but those of main() at the lock changes lockless, or takes a process
\* to where it works with the lock or away from there.
LEMMA LockStep ==
  ASSUME RunsOK, LockOK, NEW p \in Proc, Step(p) \/ Killed(p)
  PROVE  LockOK'
<1>1. run[p] \in Run
  BY DEF RunsOK
<1>2. \A q \in Proc : q # p => run'[q] = run[q]
  BY OnlyOne
<1>3. CASE OpenFails(p)
  <2> DEFINE r == [run[p] EXCEPT !.pc = "query", !.lockless = TRUE]
  <2>1. run'[p] = r
    BY <1>3, NowIs DEF OpenFails
  <2>2. run[p].pc = "start" /\ r.pc = "query" /\ r.lockless = TRUE /\ lock' = lock
    BY <1>1, <1>3 DEF OpenFails, Run
  <2> HIDE DEF r
  <2>3. QED
    BY <1>2, <2>1, <2>2, LockMoves DEF Working
<1>4. CASE Acquire(p)
  <2> DEFINE r == [run[p] EXCEPT !.pc = "query"]
  <2>1. run'[p] = r
    BY <1>4, NowIs DEF Acquire
  <2>2. /\ run[p].pc = "start" /\ r.pc = "query" /\ r.lockless = run[p].lockless
        /\ lock = NoOne /\ lock' = p
    BY <1>1, <1>4 DEF Acquire, Run
  <2>3. ~r.lockless
    BY <2>2 DEF LockOK
  <2> HIDE DEF r
  <2>4. QED
    BY <1>2, <2>1, <2>2, <2>3, LockMoves DEF Working
<1>5. CASE Busy(p)
  <2> DEFINE r == [run[p] EXCEPT !.pc = "out", !.err = HTTP_503]
  <2>1. run'[p] = r
    BY <1>5, NowIs DEF Busy
  <2>2. run[p].pc = "start" /\ r.pc = "out" /\ lock' = lock
    BY <1>1, <1>5 DEF Busy, Run
  <2> HIDE DEF r
  <2>3. QED
    BY <1>2, <2>1, <2>2, LockMoves DEF Working
<1>6. CASE Unlock(p)
  <2> DEFINE r == [run[p] EXCEPT !.pc = "out"]
  <2>1. run'[p] = r
    BY <1>6, NowIs DEF Unlock
  <2>2. /\ run[p].pc = "out_lock" /\ r.pc = "out"
        /\ lock' = IF run[p].lockless THEN lock ELSE NoOne
    BY <1>1, <1>6 DEF Unlock, Run
  <2>3. lock = p <=> ~run[p].lockless
    BY <2>2 DEF LockOK, Working
  <2> HIDE DEF r
  <2>4. QED
    BY <1>2, <2>1, <2>2, <2>3, LockMoves DEF Working
<1>7. CASE Exit(p)
  <2> DEFINE r == [run[p] EXCEPT !.pc = "ended", !.redirects = 0,
                                 !.output = @ \o run[p].pending, !.pending = <<>>]
  <2>1. run'[p] = r
    BY <1>7, NowIs DEF Exit
  <2>2. run[p].pc = "out" /\ r.pc = "ended" /\ lock' = lock
    BY <1>1, <1>7 DEF Exit, Run
  <2> HIDE DEF r
  <2>3. QED
    BY <1>2, <2>1, <2>2, LockMoves DEF Working
<1>8. CASE Dies(p)
  <2> DEFINE r == [run[p] EXCEPT !.pc = "dead", !.redirects = 0, !.chunks = 0,
                                 !.pending = <<>>]
  <2>1. run'[p] = r
    BY <1>8, NowIs DEF Dies
  <2>2. r.pc = "dead" /\ lock' = IF lock = p THEN NoOne ELSE lock
    BY <1>1, <1>8 DEF Dies, Run
  <2> HIDE DEF r
  <2>3. QED
    BY <1>2, <2>1, <2>2, LockMoves DEF Working
<1>9. CASE \/ BadQuery(p) \/ GoodQuery(p) \/ NoMirrorlist(p) \/ GetMirrorlist(p)
           \/ SkipMirror(p) \/ SpiderMirror(p) \/ NoMirrorLeft(p) \/ Free(p)
           \/ Redirect(p) \/ Found(p) \/ Answered(p) \/ Data(p) \/ Eof(p) \/ Fail(p)
  <2>1. /\ Working(p) /\ Working(p)' /\ lock' = lock
        /\ run'[p].lockless = run[p].lockless /\ run'[p].pc # "start"
    <3>0. ASSUME NEW r, Becomes(p, r), r.lockless = run[p].lockless,
                 NEW c \in {"list", "next", "spider", "get", "body", "free",
                            "out_lock"}, r.pc = c
          PROVE  /\ Working(p)' /\ run'[p].lockless = run[p].lockless
                 /\ run'[p].pc # "start"
      BY <3>0, NowIs DEF Working
    <3>1. CASE BadQuery(p)
      <4> DEFINE Then(s) == [s EXCEPT !.pc = "out_lock", !.err = HTTP_400]
      <4>1. ASSUME NEW s \in Run
            PROVE  /\ Then(s).lockless = s.lockless
                   /\ Then(s).pc = "out_lock"
        BY DEF Run
      <4>2. Working(p) /\ lock' = lock
        BY <3>1 DEF BadQuery, Working
      <4>3. Becomes(p, Then(run[p]))
        BY <3>1 DEF BadQuery
      <4>4. QED
        BY <1>1, <3>0, <4>1, <4>2, <4>3, Zenon
    <3>2. CASE GoodQuery(p)
      BY <1>1, <3>0, <3>2 DEF GoodQuery, Working, Run
    <3>3. CASE NoMirrorlist(p)
      BY <1>1, <3>0, <3>3 DEF NoMirrorlist, Working, Run
    <3>4. CASE GetMirrorlist(p)
      <4> DEFINE Then(s, n) == [s EXCEPT !.pc = "next", !.mirrors = n]
      <4>1. ASSUME NEW s \in Run, NEW n
            PROVE  /\ Then(s, n).lockless = s.lockless
                   /\ Then(s, n).pc = "next"
        BY DEF Run
      <4>2. Working(p) /\ lock' = lock
        BY <3>4 DEF GetMirrorlist, Working
      <4>3. \E n : Becomes(p, Then(run[p], n))
        BY <3>4 DEF GetMirrorlist
      <4>4. QED
        BY <1>1, <3>0, <4>1, <4>2, <4>3, Zenon
    <3>5. CASE SkipMirror(p)
      BY <1>1, <3>0, <3>5 DEF SkipMirror, Working, Run
    <3>6. CASE SpiderMirror(p)
      <4> DEFINE Then(s) == [s EXCEPT !.pc = "spider", !.mirror = @ + 1]
      <4>1. ASSUME NEW s \in Run
            PROVE  /\ Then(s).lockless = s.lockless
                   /\ Then(s).pc = "spider"
        BY DEF Run
      <4>2. Working(p) /\ lock' = lock
        BY <3>6 DEF SpiderMirror, Working
      <4>3. Becomes(p, Then(run[p]))
        BY <3>6 DEF SpiderMirror
      <4>4. QED
        BY <1>1, <3>0, <4>1, <4>2, <4>3, Zenon
    <3>7. CASE NoMirrorLeft(p)
      BY <1>1, <3>0, <3>7 DEF NoMirrorLeft, Working, Run
    <3>8. CASE Free(p)
      BY <1>1, <3>0, <3>8 DEF Free, Working, Run
    <3>9. CASE Redirect(p)
      BY <1>1, <3>0, <3>9 DEF Redirect, Working, Run
    <3>10. CASE Found(p)
      BY <1>1, <3>0, <3>10 DEF Found, Working, Run
    <3>11. CASE Answered(p)
      <4> DEFINE Then(s, buffer) == [s EXCEPT !.pc = "body", !.pending = buffer]
      <4>1. ASSUME NEW s \in Run, NEW buffer
            PROVE  /\ Then(s, buffer).lockless = s.lockless
                   /\ Then(s, buffer).pc = "body"
        BY DEF Run
      <4>2. Working(p) /\ lock' = lock
        BY <3>11 DEF Answered, Working
      <4>3. \E buffer : Becomes(p, Then(run[p], buffer))
        BY <3>11 DEF Answered
      <4>4. QED
        BY <1>1, <3>0, <4>1, <4>2, <4>3, Zenon
    <3>12. CASE Data(p)
      <4>1. PICK count, sent :
              Becomes(p, [run[p] EXCEPT !.chunks = count, !.pending = <<>>,
                                        !.output = sent])
        BY <3>12 DEF Data
      <4> DEFINE Then(s) == [s EXCEPT !.chunks = count, !.pending = <<>>,
                                      !.output = sent]
      <4>2. ASSUME NEW s \in Run, s.pc = "body"
            PROVE  Then(s).lockless = s.lockless /\ Then(s).pc = "body"
        BY <4>2 DEF Run
      <4>3. Working(p) /\ lock' = lock /\ run[p].pc = "body"
        BY <3>12 DEF Data, Working
      <4>4. QED
        BY <1>1, <3>0, <4>1, <4>2, <4>3, Zenon
    <3>13. CASE Eof(p)
      <4> DEFINE Then(s) == [s EXCEPT !.pc = "free", !.chunks = 0, !.success = TRUE]
      <4>1. ASSUME NEW s \in Run
            PROVE  /\ Then(s).lockless = s.lockless
                   /\ Then(s).pc = "free"
        BY DEF Run
      <4>2. Working(p) /\ lock' = lock
        BY <3>13 DEF Eof, Working
      <4>3. Becomes(p, Then(run[p]))
        BY <3>13 DEF Eof
      <4>4. QED
        BY <1>1, <3>0, <4>1, <4>2, <4>3, Zenon
    <3>14. CASE Fail(p)
      <4> DEFINE Then(s) == [s EXCEPT !.pc = "next", !.chunks = 0]
      <4>1. ASSUME NEW s \in Run
            PROVE  /\ Then(s).lockless = s.lockless
                   /\ Then(s).pc = "next"
        BY DEF Run
      <4>2. Working(p) /\ lock' = lock
        BY <3>14 DEF Fail, Working
      <4>3. Becomes(p, Then(run[p]))
        BY <3>14 DEF Fail
      <4>4. QED
        BY <1>1, <3>0, <4>1, <4>2, <4>3, Zenon
    <3>15. QED
      BY <1>9, <3>1, <3>2, <3>3, <3>4, <3>5, <3>6, <3>7, <3>8, <3>9,
         <3>10, <3>11, <3>12, <3>13, <3>14
  <2>2. QED
    BY <1>2, <2>1, LockMoves
<1>10. QED
  BY <1>3, <1>4, <1>5, <1>6, <1>7, <1>8, <1>9
     DEF Step, Killed, BrokenQuery, FreeCrashes

-------------------------------------------------------------------------------
(* The delivery                                                            *)

Over == {"ended", "dead"}

\* What the client sees of a process stays the same.
Alike(s, r) ==
  /\ r.output = s.output /\ r.pending = s.pending
  /\ r.mirror = s.mirror /\ r.mirrors = s.mirrors /\ r.success = s.success
  /\ s.pc \notin Over /\ r.pc \notin Over

LEMMA DeliveryRests ==
  ASSUME RunsOK, NEW p \in Proc, NEW r, run'[p] = r, Alike(run[p], r)
  PROVE  UNCHANGED TheDelivery(p)!deliveryVars
BY DEF Alike, Over, TheDelivery!deliveryVars

LEMMA DeliveryOfOthers ==
  ASSUME RunsOK, NEW p \in Proc, run'[p] = run[p]
  PROVE  UNCHANGED TheDelivery(p)!deliveryVars
BY DEF TheDelivery!deliveryVars

LEMMA DeliveryStart ==
  ASSUME Init, NEW p \in Proc
  PROVE  TheDelivery(p)!Init
BY DEF Init, TheDelivery!Init

LEMMA AppendedToAll ==
  ASSUME NEW s \in Seq(Parts), NEW t \in Seq(Parts), NEW x \in Parts
  PROVE  s \o Append(t, x) = Append(s \o t, x)
OBVIOUS

LEMMA NothingAdded ==
  ASSUME NEW s \in Seq(Parts)
  PROVE  s \o <<>> = s
OBVIOUS

\* What is lost with the buffer is headers at the end.
LEMMA HeadersCut ==
  ASSUME NEW s \in Seq(Parts), NEW t \in Seq(Parts), OnlyHeaders(t)
  PROVE  \E k \in 0..Len(s \o t) :
           /\ \A i \in (k + 1)..Len(s \o t) : (s \o t)[i].part = "header"
           /\ s = SubSeq(s \o t, 1, k)
<1>1. Len(s \o t) = Len(s) + Len(t) /\ Len(s) \in Nat /\ Len(t) \in Nat
  OBVIOUS
<1>2. ASSUME NEW i \in (Len(s) + 1)..Len(s \o t) PROVE (s \o t)[i].part = "header"
  <2>1. i - Len(s) \in 1..Len(t) /\ i \in 1..(Len(s) + Len(t)) /\ ~(i <= Len(s))
    BY <1>1
  <2>2. (s \o t)[i] = t[i - Len(s)]
    BY <2>1, ConcatProperties
  <2>3. DOMAIN t = 1..Len(t)
    OBVIOUS
  <2>4. QED
    BY <2>1, <2>2, <2>3 DEF OnlyHeaders
<1>3. s = SubSeq(s \o t, 1, Len(s))
  OBVIOUS
<1>4. Len(s) \in 0..Len(s \o t)
  BY <1>1
<1>5. QED
  BY <1>2, <1>3, <1>4, Zenon

LEMMA DeliveryPlans ==
  ASSUME RunsOK, NEW p \in Proc, GetMirrorlist(p)
  PROVE  TheDelivery(p)!Plan
<1> DEFINE Then(s, n) == [s EXCEPT !.pc = "next", !.mirrors = n]
<1>1. PICK n \in 0..MaxMirrors : Becomes(p, Then(run[p], n))
  BY DEF GetMirrorlist
<1>2. ASSUME NEW s \in Run
      PROVE  /\ Then(s, n).output = s.output /\ Then(s, n).pending = s.pending
             /\ Then(s, n).mirror = s.mirror /\ Then(s, n).success = s.success
             /\ Then(s, n).pc = "next" /\ Then(s, n).mirrors = n
  BY DEF Run
<1>3. run[p] \in Run /\ RunOK(run[p]) /\ run[p].pc = "list"
  BY DEF RunsOK, GetMirrorlist
<1>4. run[p].mirrors = 0 /\ run[p].mirror = 0
  BY <1>3 DEF Run, RunOK, Before
<1>5. PICK r : r = Then(run[p], n)
  OBVIOUS
<1>6. /\ run'[p] = r
      /\ r.output = run[p].output /\ r.pending = run[p].pending
      /\ r.mirror = run[p].mirror /\ r.success = run[p].success
      /\ r.pc = "next" /\ r.mirrors = n
  BY <1>1, <1>2, <1>3, <1>5, NowIs, Zenon
<1>7. QED
  BY <1>3, <1>4, <1>6, ProxyAssumption DEF TheDelivery!Plan

LEMMA DeliveryTurns ==
  ASSUME RunsOK, NEW p \in Proc, SkipMirror(p) \/ SpiderMirror(p)
  PROVE  TheDelivery(p)!Turn
<1>1. run[p] \in Run /\ RunOK(run[p]) /\ run[p].pc = "next"
      /\ run[p].mirror < run[p].mirrors
  BY DEF RunsOK, SkipMirror, SpiderMirror
<1>2. /\ run'[p].output = run[p].output /\ run'[p].pending = run[p].pending
      /\ run'[p].mirror = run[p].mirror + 1 /\ run'[p].mirrors = run[p].mirrors
      /\ run'[p].success = run[p].success /\ run'[p].pc \in {"next", "spider"}
  <2>1. CASE SkipMirror(p)
    <3> DEFINE Then(s) == [s EXCEPT !.mirror = @ + 1]
    <3>1. ASSUME NEW s \in Run
          PROVE  /\ Then(s).output = s.output /\ Then(s).pending = s.pending
                 /\ Then(s).mirror = s.mirror + 1 /\ Then(s).mirrors = s.mirrors
                 /\ Then(s).success = s.success /\ Then(s).pc = s.pc
      BY DEF Run
    <3>2. run'[p] = Then(run[p])
      BY <2>1, NowIs DEF SkipMirror
    <3>3. QED
      BY <1>1, <3>1, <3>2, Zenon
  <2>2. CASE SpiderMirror(p)
    <3> DEFINE Then(s) == [s EXCEPT !.pc = "spider", !.mirror = @ + 1]
    <3>1. ASSUME NEW s \in Run
          PROVE  /\ Then(s).output = s.output /\ Then(s).pending = s.pending
                 /\ Then(s).mirror = s.mirror + 1 /\ Then(s).mirrors = s.mirrors
                 /\ Then(s).success = s.success /\ Then(s).pc = "spider"
      BY DEF Run
    <3>2. run'[p] = Then(run[p])
      BY <2>2, NowIs DEF SpiderMirror
    <3>3. QED
      BY <1>1, <3>1, <3>2, Zenon
  <2>3. QED
    BY <2>1, <2>2
<1>3. ~run[p].success
  BY <1>1 DEF RunOK, After
<1>4. /\ run[p].mirrors - run[p].mirror > 0
      /\ run[p].mirrors - (run[p].mirror + 1) = run[p].mirrors - run[p].mirror - 1
  BY <1>1, ProxyAssumption DEF Run
<1>5. QED
  BY <1>1, <1>2, <1>3, <1>4 DEF TheDelivery!Turn

LEMMA DeliveryGetsHeader ==
  ASSUME RunsOK, NEW p \in Proc, Answered(p)
  PROVE  TheDelivery(p)!GiveHeader
<1> DEFINE h == Header(run[p].mirror)
           all == run[p].output \o run[p].pending
<1>0. PICK buffer : buffer = Append(run[p].pending, h)
  OBVIOUS
<1> DEFINE Then(s) == [s EXCEPT !.pc = "body", !.pending = buffer]
<1>1. run[p] \in Run /\ RunOK(run[p]) /\ run[p].pc = "get"
  BY DEF RunsOK, Answered
<1>2. run'[p] = Then(run[p])
  BY <1>0, NowIs DEF Answered
<1>3. ASSUME NEW s \in Run
      PROVE  /\ Then(s).output = s.output /\ Then(s).pending = buffer
             /\ Then(s).mirror = s.mirror /\ Then(s).mirrors = s.mirrors
             /\ Then(s).success = s.success /\ Then(s).pc = "body"
  BY DEF Run
<1>4. /\ run'[p].output = run[p].output /\ run'[p].pending = buffer
      /\ run'[p].mirror = run[p].mirror /\ run'[p].mirrors = run[p].mirrors
      /\ run'[p].success = run[p].success /\ run'[p].pc = "body"
  BY <1>1, <1>2, <1>3, Zenon
<1>5. /\ run[p].output \in Seq(Parts) /\ run[p].pending \in Seq(Parts)
      /\ run[p].mirror \in Int /\ run[p].mirror > 0 /\ h \in Parts
      /\ h.mirror = run[p].mirror
  BY <1>1, ProxyAssumption DEF Run, RunOK, Header, Parts
<1>6. run'[p].output \o run'[p].pending = Append(all, h)
  BY <1>0, <1>4, <1>5, AppendedToAll, Zenon
<1>7. ~(\E i \in DOMAIN all : all[i] = h)
  <2>1. UpTo(all, run[p].mirror - 1)
    <3>1. run[p].mirror - 1 \in Int
      BY <1>5
    <3>2. QED
      BY <1>1, <1>5, <3>1, Joined DEF RunOK
  <2> HIDE DEF all, h
  <2>2. QED
    BY <1>5, <2>1 DEF UpTo
<1>8. h = TheDelivery(p)!Header(run[p].mirror)
  BY DEF Header, TheDelivery!Header
<1>9. ~run[p].success
  BY <1>1 DEF RunOK, After
<1>10. QED
  BY <1>1, <1>4, <1>5, <1>6, <1>7, <1>8, <1>9
     DEF TheDelivery!GiveHeader, TheDelivery!Has

LEMMA DeliveryGetsData ==
  ASSUME RunsOK, NEW p \in Proc, Data(p)
  PROVE  TheDelivery(p)!GiveData \/ UNCHANGED TheDelivery(p)!deliveryVars
<1> DEFINE h == Header(run[p].mirror)
           c == Chunk(run[p].mirror)
           all == run[p].output \o run[p].pending
<1>1. run[p] \in Run /\ RunOK(run[p]) /\ run[p].pc = "body"
  BY DEF RunsOK, Data
<1>2. PICK data \in {<<>>, <<c>>} :
        run'[p] = [run[p] EXCEPT !.chunks = @ + Len(data), !.pending = <<>>,
                                 !.output = all \o data]
  BY NowIs DEF Data
<1>0. PICK count, sent : count = run[p].chunks + Len(data) /\ sent = all \o data
  OBVIOUS
<1> DEFINE Then(s) == [s EXCEPT !.chunks = count, !.pending = <<>>, !.output = sent]
<1>2a. run'[p] = Then(run[p])
  BY <1>0, <1>2
<1>3. ASSUME NEW s \in Run
      PROVE  /\ Then(s).output = sent /\ Then(s).pending = <<>>
             /\ Then(s).mirror = s.mirror /\ Then(s).mirrors = s.mirrors
             /\ Then(s).success = s.success /\ Then(s).pc = s.pc
  BY DEF Run
<1>4. /\ run'[p].output = all \o data /\ run'[p].pending = <<>>
      /\ run'[p].mirror = run[p].mirror /\ run'[p].mirrors = run[p].mirrors
      /\ run'[p].success = run[p].success /\ run'[p].pc = run[p].pc
  BY <1>0, <1>1, <1>2a, <1>3, Zenon
<1>5. /\ run[p].output \in Seq(Parts) /\ run[p].pending \in Seq(Parts)
      /\ run[p].mirror \in Int /\ run[p].mirror > 0 /\ c \in Parts
  BY <1>1, ProxyAssumption DEF Run, RunOK, Chunk, Parts
<1>6. all \in Seq(Parts) /\ Gives(all, h)
  BY <1>1, <1>5, Joined DEF RunOK
<1>7. /\ h = TheDelivery(p)!Header(run[p].mirror)
      /\ c = TheDelivery(p)!Chunk(run[p].mirror)
  BY DEF Header, Chunk, TheDelivery!Header, TheDelivery!Chunk
<1>8. ~run[p].success
  BY <1>1 DEF RunOK, After
<1>9. TheDelivery(p)!Has(all, h)
  BY <1>6 DEF Gives, TheDelivery!Has
<1>10. CASE data = <<>>
  <2> HIDE DEF all
  <2>1. all \o <<>> \o <<>> = all
    BY <1>6
  <2>2. run'[p].output \o run'[p].pending = all
    BY <1>4, <1>10, <2>1, Zenon
  <2>3. QED
    BY <1>4, <2>2 DEF TheDelivery!deliveryVars, all
<1>11. CASE data = <<c>>
  <2>1. run'[p].output \o run'[p].pending = Append(all, c)
    <3> HIDE DEF all, c
    <3>1. (all \o <<c>>) \o <<>> = Append(all, c)
      BY <1>5, <1>6
    <3>2. QED
      BY <1>4, <1>11, <3>1, Zenon
  <2>2. QED
    BY <1>1, <1>4, <1>7, <1>8, <1>9, <2>1 DEF TheDelivery!GiveData
<1>12. QED
  BY <1>10, <1>11

LEMMA DeliverySucceeds ==
  ASSUME RunsOK, NEW p \in Proc, Eof(p)
  PROVE  TheDelivery(p)!Succeed
<1> DEFINE Then(s) == [s EXCEPT !.pc = "free", !.chunks = 0, !.success = TRUE]
<1>1. run[p] \in Run /\ RunOK(run[p]) /\ run[p].pc \in {"get", "body"}
  BY DEF RunsOK, Eof
<1>2. run'[p] = Then(run[p])
  BY NowIs DEF Eof
<1>3. ASSUME NEW s \in Run
      PROVE  /\ Then(s).output = s.output /\ Then(s).pending = s.pending
             /\ Then(s).mirror = s.mirror /\ Then(s).mirrors = s.mirrors
             /\ Then(s).success = TRUE /\ Then(s).pc = "free"
  BY DEF Run
<1>4. /\ run'[p].output = run[p].output /\ run'[p].pending = run[p].pending
      /\ run'[p].mirror = run[p].mirror /\ run'[p].mirrors = run[p].mirrors
      /\ run'[p].success = TRUE /\ run'[p].pc = "free"
  BY <1>1, <1>2, <1>3, Zenon
<1>5. ~run[p].success /\ run[p].mirror > 0
  BY <1>1 DEF RunOK, After
<1>6. QED
  BY <1>1, <1>4, <1>5 DEF TheDelivery!Succeed

LEMMA DeliveryCloses ==
  ASSUME RunsOK, NEW p \in Proc, Exit(p)
  PROVE  TheDelivery(p)!Close
<1> DEFINE all == run[p].output \o run[p].pending
<1>0. PICK sent : sent = all
  OBVIOUS
<1> DEFINE Then(s) == [s EXCEPT !.pc = "ended", !.redirects = 0, !.output = sent,
                                !.pending = <<>>]
<1>1. run[p] \in Run /\ RunOK(run[p]) /\ run[p].pc = "out"
  BY DEF RunsOK, Exit
<1>2. run'[p] = Then(run[p])
  BY <1>0, NowIs DEF Exit
<1>3. ASSUME NEW s \in Run
      PROVE  /\ Then(s).output = sent /\ Then(s).pending = <<>>
             /\ Then(s).mirror = s.mirror /\ Then(s).mirrors = s.mirrors
             /\ Then(s).success = s.success /\ Then(s).pc = "ended"
  BY DEF Run
<1>4. /\ run'[p].output = all /\ run'[p].pending = <<>>
      /\ run'[p].mirror = run[p].mirror /\ run'[p].mirrors = run[p].mirrors
      /\ run'[p].success = run[p].success /\ run'[p].pc = "ended"
  BY <1>0, <1>1, <1>2, <1>3, Zenon
<1>5. run[p].output \in Seq(Parts) /\ run[p].pending \in Seq(Parts)
  BY <1>1 DEF Run
<1>6. run'[p].output \o run'[p].pending = all
  BY <1>4, <1>5
<1>7. run[p].success \/ run[p].mirrors - run[p].mirror = 0
  BY <1>1 DEF Run, RunOK
<1>8. QED
  BY <1>1, <1>4, <1>6, <1>7 DEF TheDelivery!Close

LEMMA DeliveryDies ==
  ASSUME RunsOK, NEW p \in Proc, Dies(p), run[p].pc \notin Over
  PROVE  TheDelivery(p)!Die
<1> DEFINE Then(s) == [s EXCEPT !.pc = "dead", !.redirects = 0, !.chunks = 0,
                                !.pending = <<>>]
           all == run[p].output \o run[p].pending
<1>1. run[p] \in Run /\ RunOK(run[p])
  BY DEF RunsOK
<1>2. run'[p] = Then(run[p])
  BY NowIs DEF Dies
<1>3. ASSUME NEW s \in Run
      PROVE  /\ Then(s).output = s.output /\ Then(s).pending = <<>>
             /\ Then(s).mirror = s.mirror /\ Then(s).mirrors = s.mirrors
             /\ Then(s).success = s.success /\ Then(s).pc = "dead"
  BY DEF Run
<1>4. /\ run'[p].output = run[p].output /\ run'[p].pending = <<>>
      /\ run'[p].mirror = run[p].mirror /\ run'[p].mirrors = run[p].mirrors
      /\ run'[p].success = run[p].success /\ run'[p].pc = "dead"
  BY <1>1, <1>2, <1>3, Zenon
<1>5. /\ run[p].output \in Seq(Parts) /\ run[p].pending \in Seq(Parts)
      /\ OnlyHeaders(run[p].pending)
  BY <1>1 DEF Run, RunOK
<1>6. \E k \in 0..Len(all) :
        /\ \A i \in (k + 1)..Len(all) : all[i].part = "header"
        /\ run'[p].output \o run'[p].pending = SubSeq(all, 1, k)
  <2>1. run'[p].output \o run'[p].pending = run[p].output
    BY <1>4, <1>5, NothingAdded, Zenon
  <2>2. \E k \in 0..Len(all) :
          /\ \A i \in (k + 1)..Len(all) : all[i].part = "header"
          /\ run[p].output = SubSeq(all, 1, k)
    BY <1>5, HeadersCut, Zenon
  <2>3. QED
    BY <2>1, <2>2, Zenon
<1>7. QED
  BY <1>4, <1>6 DEF TheDelivery!Die, Over

LEMMA DeliveryAlike ==
  ASSUME RunsOK, NEW p \in Proc,
         \/ OpenFails(p) \/ Acquire(p) \/ Busy(p) \/ Unlock(p) \/ BadQuery(p)
         \/ GoodQuery(p) \/ NoMirrorlist(p) \/ NoMirrorLeft(p) \/ Free(p)
         \/ Redirect(p) \/ Found(p) \/ Fail(p)
  PROVE  UNCHANGED TheDelivery(p)!deliveryVars
<1>1. run[p] \in Run
  BY DEF RunsOK
<1>2. PICK r : run'[p] = r /\ Alike(run[p], r)
  <2>1. CASE OpenFails(p)
    <3> DEFINE Then(s) == [s EXCEPT !.pc = "query", !.lockless = TRUE]
    <3>1. ASSUME NEW s \in Run, s.pc \notin Over PROVE Alike(s, Then(s))
      BY <3>1 DEF Run, Alike, Over
    <3>2. run'[p] = Then(run[p])
      BY <2>1, NowIs DEF OpenFails
    <3>3. run[p].pc \notin Over
      BY <2>1 DEF OpenFails, Over
    <3>4. QED
      BY <1>1, <3>1, <3>2, <3>3, Zenon
  <2>2. CASE Acquire(p)
    <3> DEFINE Then(s) == [s EXCEPT !.pc = "query"]
    <3>1. ASSUME NEW s \in Run, s.pc \notin Over PROVE Alike(s, Then(s))
      BY <3>1 DEF Run, Alike, Over
    <3>2. run'[p] = Then(run[p])
      BY <2>2, NowIs DEF Acquire
    <3>3. run[p].pc \notin Over
      BY <2>2 DEF Acquire, Over
    <3>4. QED
      BY <1>1, <3>1, <3>2, <3>3, Zenon
  <2>3. CASE Busy(p)
    <3> DEFINE Then(s) == [s EXCEPT !.pc = "out", !.err = HTTP_503]
    <3>1. ASSUME NEW s \in Run, s.pc \notin Over PROVE Alike(s, Then(s))
      BY <3>1 DEF Run, Alike, Over
    <3>2. run'[p] = Then(run[p])
      BY <2>3, NowIs DEF Busy
    <3>3. run[p].pc \notin Over
      BY <2>3 DEF Busy, Over
    <3>4. QED
      BY <1>1, <3>1, <3>2, <3>3, Zenon
  <2>4. CASE Unlock(p)
    <3> DEFINE Then(s) == [s EXCEPT !.pc = "out"]
    <3>1. ASSUME NEW s \in Run, s.pc \notin Over PROVE Alike(s, Then(s))
      BY <3>1 DEF Run, Alike, Over
    <3>2. run'[p] = Then(run[p])
      BY <2>4, NowIs DEF Unlock
    <3>3. run[p].pc \notin Over
      BY <2>4 DEF Unlock, Over
    <3>4. QED
      BY <1>1, <3>1, <3>2, <3>3, Zenon
  <2>5. CASE BadQuery(p)
    <3> DEFINE Then(s) == [s EXCEPT !.pc = "out_lock", !.err = HTTP_400]
    <3>1. ASSUME NEW s \in Run, s.pc \notin Over PROVE Alike(s, Then(s))
      BY <3>1 DEF Run, Alike, Over
    <3>2. run'[p] = Then(run[p])
      BY <2>5, NowIs DEF BadQuery
    <3>3. run[p].pc \notin Over
      BY <2>5 DEF BadQuery, Over
    <3>4. QED
      BY <1>1, <3>1, <3>2, <3>3, Zenon
  <2>6. CASE GoodQuery(p)
    <3> DEFINE Then(s) == [s EXCEPT !.pc = "list"]
    <3>1. ASSUME NEW s \in Run, s.pc \notin Over PROVE Alike(s, Then(s))
      BY <3>1 DEF Run, Alike, Over
    <3>2. run'[p] = Then(run[p])
      BY <2>6, NowIs DEF GoodQuery
    <3>3. run[p].pc \notin Over
      BY <2>6 DEF GoodQuery, Over
    <3>4. QED
      BY <1>1, <3>1, <3>2, <3>3, Zenon
  <2>7. CASE NoMirrorlist(p)
    <3> DEFINE Then(s) == [s EXCEPT !.pc = "out_lock"]
    <3>1. ASSUME NEW s \in Run, s.pc \notin Over PROVE Alike(s, Then(s))
      BY <3>1 DEF Run, Alike, Over
    <3>2. run'[p] = Then(run[p])
      BY <2>7, NowIs DEF NoMirrorlist
    <3>3. run[p].pc \notin Over
      BY <2>7 DEF NoMirrorlist, Over
    <3>4. QED
      BY <1>1, <3>1, <3>2, <3>3, Zenon
  <2>8. CASE NoMirrorLeft(p)
    <3> DEFINE Then(s) == [s EXCEPT !.pc = "free"]
    <3>1. ASSUME NEW s \in Run, s.pc \notin Over PROVE Alike(s, Then(s))
      BY <3>1 DEF Run, Alike, Over
    <3>2. run'[p] = Then(run[p])
      BY <2>8, NowIs DEF NoMirrorLeft
    <3>3. run[p].pc \notin Over
      BY <2>8 DEF NoMirrorLeft, Over
    <3>4. QED
      BY <1>1, <3>1, <3>2, <3>3, Zenon
  <2>9. CASE Free(p)
    <3> DEFINE Then(s) == [s EXCEPT !.pc = "out_lock"]
    <3>1. ASSUME NEW s \in Run, s.pc \notin Over PROVE Alike(s, Then(s))
      BY <3>1 DEF Run, Alike, Over
    <3>2. run'[p] = Then(run[p])
      BY <2>9, NowIs DEF Free
    <3>3. run[p].pc \notin Over
      BY <2>9 DEF Free, Over
    <3>4. QED
      BY <1>1, <3>1, <3>2, <3>3, Zenon
  <2>10. CASE Redirect(p)
    <3> DEFINE Then(s) == [s EXCEPT !.redirects = @ + 1]
    <3>1. ASSUME NEW s \in Run, s.pc \notin Over PROVE Alike(s, Then(s))
      BY <3>1 DEF Run, Alike, Over
    <3>2. run'[p] = Then(run[p])
      BY <2>10, NowIs DEF Redirect
    <3>3. run[p].pc \notin Over
      BY <2>10 DEF Redirect, Over
    <3>4. QED
      BY <1>1, <3>1, <3>2, <3>3, Zenon
  <2>11. CASE Found(p)
    <3>0. PICK next \in {"get", "next"} : Becomes(p, [run[p] EXCEPT !.pc = next])
      BY <2>11 DEF Found
    <3> DEFINE Then(s) == [s EXCEPT !.pc = next]
    <3>1. ASSUME NEW s \in Run, s.pc \notin Over PROVE Alike(s, Then(s))
      BY <3>1 DEF Run, Alike, Over
    <3>2. run'[p] = Then(run[p])
      BY <2>11, <3>0, NowIs DEF Found
    <3>3. run[p].pc \notin Over
      BY <2>11 DEF Found, Over
    <3>4. QED
      BY <1>1, <3>1, <3>2, <3>3, Zenon
  <2>12. CASE Fail(p)
    <3> DEFINE Then(s) == [s EXCEPT !.pc = "next", !.chunks = 0]
    <3>1. ASSUME NEW s \in Run, s.pc \notin Over PROVE Alike(s, Then(s))
      BY <3>1 DEF Run, Alike, Over
    <3>2. run'[p] = Then(run[p])
      BY <2>12, NowIs DEF Fail
    <3>3. run[p].pc \notin Over
      BY <2>12 DEF Fail, Over
    <3>4. QED
      BY <1>1, <3>1, <3>2, <3>3, Zenon
  <2>13. QED
    BY <2>1, <2>2, <2>3, <2>4, <2>5, <2>6, <2>7,
       <2>8, <2>9, <2>10, <2>11, <2>12
<1>3. QED
  BY <1>2, DeliveryRests

LEMMA DeliveryStep ==
  ASSUME RunsOK, NEW p \in Proc, Step(p) \/ Killed(p)
  PROVE  TheDelivery(p)!Next \/ UNCHANGED TheDelivery(p)!deliveryVars
<1>1. CASE Dies(p) /\ run[p].pc \notin Over
  BY <1>1, DeliveryDies DEF TheDelivery!Next
<1>2. CASE Exit(p)
  BY <1>2, DeliveryCloses DEF TheDelivery!Next
<1>3. CASE Eof(p)
  BY <1>3, DeliverySucceeds DEF TheDelivery!Next
<1>4. CASE Data(p)
  BY <1>4, DeliveryGetsData DEF TheDelivery!Next
<1>5. CASE Answered(p)
  BY <1>5, DeliveryGetsHeader DEF TheDelivery!Next
<1>6. CASE SkipMirror(p) \/ SpiderMirror(p)
  BY <1>6, DeliveryTurns DEF TheDelivery!Next
<1>7. CASE GetMirrorlist(p)
  BY <1>7, DeliveryPlans DEF TheDelivery!Next
<1>8. CASE \/ OpenFails(p) \/ Acquire(p) \/ Busy(p) \/ Unlock(p) \/ BadQuery(p)
           \/ GoodQuery(p) \/ NoMirrorlist(p) \/ NoMirrorLeft(p) \/ Free(p)
           \/ Redirect(p) \/ Found(p) \/ Fail(p)
  BY <1>8, DeliveryAlike
<1>9. BrokenQuery(p) \/ FreeCrashes(p) \/ Killed(p)
        => Dies(p) /\ run[p].pc \notin Over
  BY DEF BrokenQuery, FreeCrashes, Killed, Over
<1>10. QED
  BY <1>1, <1>2, <1>3, <1>4, <1>5, <1>6, <1>7, <1>8, <1>9 DEF Step

-------------------------------------------------------------------------------
(* Theorems                                                                *)

IInv == RunsOK /\ LockOK

LEMMA InvariantStep == IInv /\ [Next]_vars => IInv'
<1>1. SUFFICES ASSUME IInv, [Next]_vars PROVE IInv'
  OBVIOUS
<1>2. CASE Next
  BY <1>1, <1>2, RunStep, LockStep DEF Next, IInv
<1>3. CASE UNCHANGED vars
  <2>1. LockOK'
    BY <1>1, <1>3 DEF IInv, LockOK, Working, vars
  <2>2. QED
    BY <1>1, <1>3, <2>1, RunStutter DEF IInv
<1>4. QED
  BY <1>1, <1>2, <1>3

\* The strengthening of all properties below is an invariant.
THEOREM Invariance == Spec => []IInv
<1>1. Init => IInv
  BY RunStart, LockStart DEF IInv
<1>2. QED
  BY <1>1, InvariantStep, PTL DEF Spec

\* Every field has its type, and only headers wait in the buffer.
THEOREM TypeCorrect == Spec => []TypeOK
<1>1. IInv => TypeOK
  <2>1. SUFFICES ASSUME IInv, NEW p \in Proc
                 PROVE  /\ lock \in Proc \cup {NoOne}
                        /\ run[p] \in Run /\ RunOK(run[p])
                        /\ run[p].mirror \in 0..run[p].mirrors
    BY DEF TypeOK, Run, RunOK, OnlyHeaders, IInv, LockOK
  <2>2. QED
    BY <2>1, ProxyAssumption DEF IInv, RunsOK, LockOK, Run, RunOK
<1>2. QED
  BY <1>1, Invariance, PTL

\* However many processes there are, two work at once only when one could not open
\* the lock file, and no lock outlives its process's work.
THEOREM Exclusive == Spec => []OneAtATime
<1>1. IInv => OneAtATime
  BY ProxyAssumption DEF IInv, LockOK, OneAtATime
<1>2. QED
  BY <1>1, Invariance, PTL

\* Each process implements Delivery.
THEOREM Implements == Spec => ImplementsDelivery
<1>1. Init => \A p \in Proc : TheDelivery(p)!Init
  BY DeliveryStart
<1>2. IInv /\ [Next]_vars =>
        [\A p \in Proc :
           TheDelivery(p)!Next \/ UNCHANGED TheDelivery(p)!deliveryVars]_vars
  <2>1. SUFFICES ASSUME IInv, Next, NEW q \in Proc
                 PROVE  TheDelivery(q)!Next \/ UNCHANGED TheDelivery(q)!deliveryVars
    OBVIOUS
  <2>2. PICK p \in Proc : Step(p) \/ Killed(p)
    BY <2>1 DEF Next
  <2>3. CASE q = p
    BY <2>1, <2>2, <2>3, DeliveryStep DEF IInv
  <2>4. CASE q # p
    <3>1. run'[q] = run[q]
      BY <2>1, <2>2, <2>4, OnlyOne DEF IInv
    <3>2. QED
      BY <2>1, <3>1, DeliveryOfOthers DEF IInv
  <2>5. QED
    BY <2>3, <2>4
<1>3. QED
  BY <1>1, <1>2, Invariance, PTL DEF Spec, ImplementsDelivery
===============================================================================
