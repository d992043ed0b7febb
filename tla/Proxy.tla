--------------------------------- MODULE Proxy ---------------------------------
(***************************************************************************)
(* autoupdater-proxy: src/autoupdater-proxy/src.  The web server starts a  *)
(* process for every request; all of them share the lock file.  A process  *)
(* asks one mirror after the other for the file and copies the answer to   *)
(* its standard output, through the buffer of stdio.                       *)
(*                                                                         *)
(* The mirrors are numbered in the order in which they come out of         *)
(* ARRAY_SHUFFLE, which is any order (Lists.tla); decoding the query is in *)
(* QueryString.tla.  libuclient is external: it calls header_done_cb for   *)
(* every response, data_read_cb while there is data, data_eof_cb when the  *)
(* connection ends, before or after a header, and error_cb for an error,   *)
(* which after CONNECTION_TIMEOUT is a timeout.                            *)
(***************************************************************************)
EXTENDS Integers, Sequences

CONSTANTS
  Proc,            \* processes, one for each request
  NoOne,           \* the lock file is not locked
  MAX_REDIRECTS,
  MaxMirrors,      \* BOUND: mirrors of a branch
  MaxChunks        \* BOUND: calls of data_read_cb with data for one file

HTTP_400 == 400
HTTP_503 == 503

ASSUME ProxyAssumption ==
  /\ NoOne \notin Proc
  /\ MAX_REDIRECTS \in Nat
  /\ MaxMirrors \in Nat
  /\ MaxChunks \in Nat

VARIABLES
  lock,   \* the process that holds the lock of LOCKFILE
  run     \* the state of each process

vars == <<lock, run>>

\* pc: "start", "query", "list" (get_mirrorlist), "next" (head of the loop over the
\*   mirrors), "spider" and "get" (a request waits for its header), "body",
\*   "free" (free_mirrorlist), "out_lock", "out", "ended", "dead";
\* lockless: open() of the lock file failed;
\* redirects: the static counter of header_done_cb;
\* mirrors, mirror: length of the list, and the mirror in use;
\* chunks: data read in this request;
\* success: the last get_url was successful;
\* output, pending: parts of the reply sent, and in the buffer of stdio;
\* err: what main() returns.
Init ==
  /\ lock = NoOne
  /\ run = [p \in Proc |->
       [pc |-> "start", lockless |-> FALSE, redirects |-> 0, mirrors |-> 0,
        mirror |-> 0, chunks |-> 0, success |-> FALSE, output |-> <<>>,
        pending |-> <<>>, err |-> 0]]

Header(m) == [mirror |-> m, part |-> "header"]
Chunk(m)  == [mirror |-> m, part |-> "data"]

\* The state of process p becomes r.
Becomes(p, r) == run' = [run EXCEPT ![p] = r]

-------------------------------------------------------------------------------
(* main(): the lock                                                        *)

\* open() fails: continue without lock.
OpenFails(p) ==
  /\ run[p].pc = "start"
  /\ Becomes(p, [run[p] EXCEPT !.pc = "query", !.lockless = TRUE])
  /\ UNCHANGED lock

\* Mutant: an answer of flock() other than 0 is not looked at.
AcquireAlways(p) ==
  /\ run[p].pc = "start"
  /\ lock' = p
  /\ Becomes(p, [run[p] EXCEPT !.pc = "query"])

Acquire(p) ==
  /\ run[p].pc = "start"
  /\ lock = NoOne
  /\ lock' = p
  /\ Becomes(p, [run[p] EXCEPT !.pc = "query"])

\* LOCK_NB: another process holds the lock.
Busy(p) ==
  /\ run[p].pc = "start"
  /\ lock # NoOne
  /\ Becomes(p, [run[p] EXCEPT !.pc = "out", !.err = HTTP_503])
  /\ UNCHANGED lock

Unlock(p) ==
  /\ run[p].pc = "out_lock"
  /\ Becomes(p, [run[p] EXCEPT !.pc = "out"])
  /\ lock' = IF run[p].lockless THEN lock ELSE NoOne

\* close(), return from main() and exit(), which empties the buffer of stdio.
Exit(p) ==
  /\ run[p].pc = "out"
  /\ Becomes(p, [run[p] EXCEPT !.pc = "ended", !.redirects = 0,
                        !.output = @ \o run[p].pending, !.pending = <<>>])
  /\ UNCHANGED lock

\* The process dies of a signal, as when a web server loses patience or the
\* client is gone; what is in its memory is lost, and the kernel unlocks.
Dies(p) ==
  /\ Becomes(p, [run[p] EXCEPT !.pc = "dead", !.redirects = 0, !.chunks = 0,
                        !.pending = <<>>])
  /\ lock' = IF lock = p THEN NoOne ELSE lock

Killed(p) == run[p].pc \notin {"ended", "dead"} /\ Dies(p)

-------------------------------------------------------------------------------
(* main() and download_file(): the query and the list of mirrors           *)

\* No QUERY_STRING, or a parameter is missing or ends in "%".
BadQuery(p) ==
  /\ run[p].pc = "query"
  /\ Becomes(p, [run[p] EXCEPT !.pc = "out_lock", !.err = HTTP_400])
  /\ UNCHANGED lock

\* A value that ends in "%" and one character: memmove() gets a negative length.
BrokenQuery(p) == run[p].pc = "query" /\ Dies(p)

GoodQuery(p) ==
  /\ run[p].pc = "query"
  /\ Becomes(p, [run[p] EXCEPT !.pc = "list"])
  /\ UNCHANGED lock

\* get_mirrorlist fails: no memory, no such branch, no list of mirrors.
NoMirrorlist(p) ==
  /\ run[p].pc = "list"
  /\ Becomes(p, [run[p] EXCEPT !.pc = "out_lock"])
  /\ UNCHANGED lock

GetMirrorlist(p) ==
  /\ run[p].pc = "list"
  /\ \E n \in 0..MaxMirrors :
       Becomes(p, [run[p] EXCEPT !.pc = "next", !.mirrors = n])
  /\ UNCHANGED lock

\* The URL is too long, or one of the calls that set up the request fails.
SkipMirror(p) ==
  /\ run[p].pc = "next"
  /\ run[p].mirror < run[p].mirrors
  /\ Becomes(p, [run[p] EXCEPT !.mirror = @ + 1])
  /\ UNCHANGED lock

SpiderMirror(p) ==
  /\ run[p].pc = "next"
  /\ run[p].mirror < run[p].mirrors
  /\ Becomes(p, [run[p] EXCEPT !.pc = "spider", !.mirror = @ + 1])
  /\ UNCHANGED lock

NoMirrorLeft(p) ==
  /\ run[p].pc = "next"
  /\ run[p].mirror = run[p].mirrors
  /\ Becomes(p, [run[p] EXCEPT !.pc = "free"])
  /\ UNCHANGED lock

\* free_mirrorlist frees the list, and then pointers into it.
Free(p) ==
  /\ run[p].pc = "free"
  /\ Becomes(p, [run[p] EXCEPT !.pc = "out_lock"])
  /\ UNCHANGED lock

FreeCrashes(p) == run[p].pc = "free" /\ run[p].mirrors > 1 /\ Dies(p)

-------------------------------------------------------------------------------
(* request() and its callbacks                                             *)

\* Mutant: at its limit the count of redirects starts again.
RedirectCountWraps(p) ==
  /\ run[p].pc \in {"spider", "get"}
  /\ Becomes(p, [run[p] EXCEPT !.redirects = (@ + 1) % (MAX_REDIRECTS + 1)])
  /\ UNCHANGED lock

\* header_done_cb: libuclient follows the redirect.
Redirect(p) ==
  /\ run[p].pc \in {"spider", "get"}
  /\ run[p].redirects < MAX_REDIRECTS
  /\ Becomes(p, [run[p] EXCEPT !.redirects = @ + 1])
  /\ UNCHANGED lock

\* header_done_cb with status 200, or data_eof_cb: the file is there.  The second
\* request follows, unless it cannot be set up.
Found(p) ==
  /\ run[p].pc = "spider"
  /\ \E next \in {"get", "next"} : Becomes(p, [run[p] EXCEPT !.pc = next])
  /\ UNCHANGED lock

\* header_done_cb with status 200: the header is printed.
Answered(p) ==
  /\ run[p].pc = "get"
  /\ Becomes(p, [run[p] EXCEPT !.pc = "body",
                        !.pending = Append(@, Header(run[p].mirror))])
  /\ UNCHANGED lock

\* Mutant: the buffer is not flushed.
DataUnflushed(p) ==
  /\ run[p].pc = "body"
  /\ run[p].chunks < MaxChunks
  /\ Becomes(p, [run[p] EXCEPT !.chunks = @ + 1,
                        !.pending = Append(@, Chunk(run[p].mirror))])
  /\ UNCHANGED lock

\* data_read_cb: read what there is, maybe nothing, and flush.
Data(p) ==
  /\ run[p].pc = "body"
  /\ \E data \in {<<>>, <<Chunk(run[p].mirror)>>} :
       /\ run[p].chunks + Len(data) <= MaxChunks
       /\ Becomes(p, [run[p] EXCEPT !.chunks = @ + Len(data), !.pending = <<>>,
                             !.output = @ \o run[p].pending \o data])
  /\ UNCHANGED lock

\* Mutant: the loop over the mirrors goes on after a success.
EofGoesOn(p) ==
  /\ run[p].pc \in {"get", "body"}
  /\ Becomes(p, [run[p] EXCEPT !.pc = "next", !.chunks = 0, !.success = TRUE])
  /\ UNCHANGED lock

\* data_eof_cb: a success, also when the connection broke; leave the loop.
Eof(p) ==
  /\ run[p].pc \in {"get", "body"}
  /\ Becomes(p, [run[p] EXCEPT !.pc = "free", !.chunks = 0, !.success = TRUE])
  /\ UNCHANGED lock

\* header_done_cb with another status or a redirect that fails, error_cb, or a
\* signal that ends uloop_run: on to the next mirror.
Fail(p) ==
  /\ run[p].pc \in {"spider", "get", "body"}
  /\ Becomes(p, [run[p] EXCEPT !.pc = "next", !.chunks = 0])
  /\ UNCHANGED lock

-------------------------------------------------------------------------------
(* Specification                                                           *)

\* What a process does next.
Step(p) ==
  \/ OpenFails(p) \/ Acquire(p) \/ Busy(p) \/ Unlock(p) \/ Exit(p)
  \/ BadQuery(p) \/ BrokenQuery(p) \/ GoodQuery(p)
  \/ NoMirrorlist(p) \/ GetMirrorlist(p)
  \/ SkipMirror(p) \/ SpiderMirror(p) \/ NoMirrorLeft(p)
  \/ Free(p) \/ FreeCrashes(p)
  \/ Redirect(p) \/ Found(p) \/ Answered(p) \/ Data(p) \/ Eof(p) \/ Fail(p)

Next == \E p \in Proc : Step(p) \/ Killed(p)

Spec == Init /\ [][Next]_vars
FairSpec == Spec /\ \A p \in Proc : WF_vars(Step(p))

-------------------------------------------------------------------------------
(* Properties                                                              *)

Parts == [mirror : 1..MaxMirrors, part : {"header", "data"}]

\* Every field has its type; only headers wait in the buffer.
TypeOK ==
  /\ lock \in Proc \cup {NoOne}
  /\ \A p \in Proc :
       LET r == run[p]
       IN  /\ r.redirects \in 0..MAX_REDIRECTS
           /\ r.mirrors \in 0..MaxMirrors
           /\ r.mirror \in 0..r.mirrors
           /\ r.chunks \in 0..MaxChunks
           /\ r.err \in {0, HTTP_400, HTTP_503}
           /\ r.output \in Seq(Parts)
           /\ r.pending \in Seq(Parts)
           /\ \A i \in DOMAIN r.pending : r.pending[i].part = "header"

\* Past the lock and not yet back.
Working(p) == run[p].pc \notin {"start", "out", "ended", "dead"}

\* Two processes download at once only when one of them could not open the lock file,
\* and the lock of a process never outlives its work, however the process ends.
OneAtATime ==
  /\ \A p, q \in Proc :
       p # q /\ Working(p) /\ Working(q) => run[p].lockless \/ run[q].lockless
  /\ lock # NoOne => Working(lock)

\* Whatever the mirrors send, every process ends: redirects cannot go on for ever,
\* not even from one mirror to the next.
EveryRunEnds == \A p \in Proc : <>(run[p].pc \in {"ended", "dead"})

TheDelivery(p) == INSTANCE Delivery WITH
  reply  <- run[p].output \o run[p].pending,
  source <- run[p].mirror,
  left   <- run[p].mirrors - run[p].mirror,
  whole  <- run[p].success,
  open   <- run[p].pc \notin {"ended", "dead"}

\* To its client each process is a delivery, whatever the others do:
\* TheDelivery(p)!Spec for every p, as one initial predicate and one action.
ImplementsDelivery ==
  /\ \A p \in Proc : TheDelivery(p)!Init
  /\ [][\A p \in Proc :
         TheDelivery(p)!Next \/ UNCHANGED TheDelivery(p)!deliveryVars]_vars
===============================================================================
