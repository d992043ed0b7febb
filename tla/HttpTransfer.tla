----------------------------- MODULE HttpTransfer -----------------------------
(***************************************************************************)
(* One call of get_url: src/autoupdater/src/uclient.c.  libuclient and     *)
(* uloop are external: after a request they call header_done_cb for every  *)
(* response, the consumer's read callback while there is data, eof_cb when *)
(* all data was read, or request_done with an error of their own.  After   *)
(* uclient_disconnect there are no more callbacks.  A signal makes         *)
(* uloop_run return early.                                                 *)
(***************************************************************************)
EXTENDS Integers

CONSTANTS
  Lengths,       \* sizes the callers ask for; -1 for any
  MaxBody,       \* BOUND: bytes a server sends in one body
  MaxRedirects   \* redirects that are followed (10 in the code)

\* Error codes: 0 and those of libuclient and of uclient.c.
Connect      == 1
TimedOut     == 2
BadRedirect  == 32
TooMany      == 33
Reset        == 34
SizeMismatch == 35
StatusCode   == 1024

ErrorCode == {0, Connect, TimedOut, BadRedirect, TooMany, Reset, SizeMismatch,
              StatusCode}

ASSUME TransferAssumption ==
  /\ Lengths \subseteq Nat \cup {-1}
  /\ MaxBody \in Nat
  /\ MaxRedirects \in Nat

VARIABLES
  len,          \* parameter of get_url
  stage,        \* "new", "header", "body", "ended" (uloop_end), "returned"
  length,       \* struct uclient_data: bytes expected, or -1
  downloaded,   \* struct uclient_data: bytes read
  retries,      \* struct uclient_data: redirects followed
  err_code,     \* struct uclient_data
  buffered,     \* bytes received and not yet read
  received,     \* bytes received of this body
  handed,       \* history: bytes the consumer got
  declared,     \* history: content-length of the response, or -1
  complete,     \* history: the body ended where it should (cl->data_eof)
  interrupted,  \* history: uloop_run returned because of a signal
  result        \* what get_url returned, or -1

vars == <<len, stage, length, downloaded, retries, err_code, buffered,
          received, handed, declared, complete, interrupted, result>>

Init ==
  /\ stage = "new"
  /\ len \in Lengths
  /\ length = len
  /\ downloaded = 0
  /\ retries = 0
  /\ err_code = 0
  /\ buffered = 0
  /\ received = 0
  /\ handed = 0
  /\ declared = -1
  /\ complete = FALSE
  /\ interrupted = FALSE
  /\ result = -1

\* Note the error, disconnect (buffered data is gone), and leave uloop_run.
request_done(code) ==
  /\ stage' = "ended"
  /\ err_code' = code
  /\ buffered' = 0

\* One of the calls that set up the request fails.
SetupFails ==
  /\ stage = "new"
  /\ stage' = "returned"
  /\ result' = Connect
  /\ UNCHANGED <<len, length, downloaded, retries, err_code, buffered, received,
                 handed, declared, complete, interrupted>>

Request ==
  /\ stage = "new"
  /\ stage' = "header"
  /\ UNCHANGED <<len, length, downloaded, retries, err_code, buffered, received,
                 handed, declared, complete, interrupted, result>>

-------------------------------------------------------------------------------
(* header_done_cb                                                          *)

\* Mutant: redirects are not limited.
RedirectUnlimited ==
  /\ stage = "header"
  /\ retries' = retries + 1
  /\ UNCHANGED <<len, stage, length, downloaded, err_code, buffered, received,
                 handed, declared, complete, interrupted, result>>

\* Mutant: the count of redirects wraps around before it reaches the limit.
RedirectCountWraps ==
  /\ stage = "header"
  /\ retries < MaxRedirects
  /\ retries' = (retries + 1) % MaxRedirects
  /\ UNCHANGED <<len, stage, length, downloaded, err_code, buffered, received,
                 handed, declared, complete, interrupted, result>>

\* uclient_http_redirect follows the redirect and sends a new request.
Redirect ==
  /\ stage = "header"
  /\ retries < MaxRedirects
  /\ retries' = retries + 1
  /\ UNCHANGED <<len, stage, length, downloaded, err_code, buffered, received,
                 handed, declared, complete, interrupted, result>>

\* uclient_http_redirect fails; or there is one redirect too many, or the
\* status is not 200.
HeaderError ==
  /\ stage = "header"
  /\ \/ retries < MaxRedirects /\ request_done(BadRedirect)
     \/ request_done(TooMany)
     \/ request_done(StatusCode)
  /\ UNCHANGED <<len, length, downloaded, retries, received, handed, declared,
                 complete, interrupted, result>>

\* Status 200 without a content-length header that can be read.
NoContentLength ==
  /\ stage = "header"
  /\ stage' = "body"
  /\ UNCHANGED <<len, length, downloaded, retries, err_code, buffered, received,
                 handed, declared, complete, interrupted, result>>

\* Mutant: the content-length replaces the length asked for.
ContentLengthUnchecked ==
  /\ stage = "header"
  /\ stage' = "body"
  /\ \E val \in 0..MaxBody : declared' = val /\ length' = val
  /\ UNCHANGED <<len, downloaded, retries, err_code, buffered, received, handed,
                 complete, interrupted, result>>

\* Status 200 with content-length val: it has to be the length asked for.
ContentLength ==
  /\ stage = "header"
  /\ \E val \in 0..MaxBody :
       /\ declared' = val
       /\ \/ /\ length >= 0 /\ length # val
             /\ request_done(SizeMismatch)
             /\ UNCHANGED length
          \/ /\ length < 0 \/ length = val
             /\ stage' = "body"
             /\ length' = val
             /\ UNCHANGED <<err_code, buffered>>
  /\ UNCHANGED <<len, downloaded, retries, received, handed, complete, interrupted,
                 result>>

-------------------------------------------------------------------------------
(* The body                                                                *)

\* External: n more bytes arrive.
Receive ==
  /\ stage = "body"
  /\ \E n \in 1..MaxBody :
       /\ received + n <= MaxBody
       /\ received' = received + n
       /\ buffered' = buffered + n
  /\ UNCHANGED <<len, stage, length, downloaded, retries, err_code, handed,
                 declared, complete, interrupted, result>>

\* The read callback: uclient_read_account reads r bytes and counts them; when
\* they are more than expected, the consumer does not get them.
ReadAccount ==
  /\ stage = "body"
  /\ \E r \in 1..buffered :
       /\ downloaded' = downloaded + r
       /\ \/ /\ length >= 0 /\ downloaded' > length
             /\ request_done(SizeMismatch)
             /\ UNCHANGED handed
          \/ /\ length < 0 \/ downloaded' <= length
             /\ handed' = handed + r
             /\ buffered' = buffered - r
             /\ UNCHANGED <<stage, err_code>>
  /\ UNCHANGED <<len, length, retries, received, declared, complete, interrupted,
                 result>>

\* Mutant: a connection that breaks ends the body.
EofAlwaysGood ==
  /\ stage = "body"
  /\ buffered = 0
  /\ complete' \in BOOLEAN
  /\ request_done(0)
  /\ UNCHANGED <<len, length, downloaded, retries, received, handed, declared,
                 interrupted, result>>

\* eof_cb, once everything was read; data_eof tells whether the body is whole.
Eof ==
  /\ stage = "body"
  /\ buffered = 0
  /\ complete' \in BOOLEAN
  /\ request_done(IF complete' THEN 0 ELSE Reset)
  /\ UNCHANGED <<len, length, downloaded, retries, received, handed, declared,
                 interrupted, result>>

\* External: libuclient reports an error (no connection, no answer in time).
LibraryError ==
  /\ stage \in {"header", "body"}
  /\ \E code \in {Connect, TimedOut} : request_done(code)
  /\ UNCHANGED <<len, length, downloaded, retries, received, handed, declared,
                 complete, interrupted, result>>

\* External: SIGINT or SIGTERM end uloop_run; no error code is set.
Interrupt ==
  /\ stage \in {"header", "body"}
  /\ stage' = "ended"
  /\ interrupted' = TRUE
  /\ UNCHANGED <<len, length, downloaded, retries, err_code, buffered, received,
                 handed, declared, complete, result>>

\* Mutant: the size is not checked at the end.
ReturnUnchecked ==
  /\ stage = "ended"
  /\ stage' = "returned"
  /\ result' = err_code
  /\ UNCHANGED <<len, length, downloaded, retries, err_code, buffered, received,
                 handed, declared, complete, interrupted>>

\* Behind uloop_run: check the size, return the code.
Return ==
  /\ stage = "ended"
  /\ stage' = "returned"
  /\ result' = IF err_code = 0 /\ length >= 0 /\ downloaded # length
               THEN SizeMismatch
               ELSE err_code
  /\ UNCHANGED <<len, length, downloaded, retries, err_code, buffered, received,
                 handed, declared, complete, interrupted>>

HeaderDone == Redirect \/ HeaderError \/ NoContentLength \/ ContentLength

Step == \/ SetupFails \/ Request
        \/ HeaderDone
        \/ Receive \/ ReadAccount \/ Eof
        \/ LibraryError
        \/ Return

Next == Step \/ Interrupt

Spec == Init /\ [][Next]_vars

\* Something always happens to an open connection: TIMEOUT_MSEC sees to it.
FairSpec == Spec /\ WF_vars(Step)

-------------------------------------------------------------------------------
(* Properties                                                              *)

\* Every variable has its type; no more than MaxRedirects are followed.
TypeOK ==
  /\ len \in Lengths
  /\ stage \in {"new", "header", "body", "ended", "returned"}
  /\ length \in Nat \cup {-1}
  /\ downloaded \in Nat
  /\ retries \in 0..MaxRedirects
  /\ err_code \in ErrorCode
  /\ buffered \in Nat
  /\ received \in 0..MaxBody
  /\ handed \in Nat
  /\ declared \in Nat \cup {-1}
  /\ complete \in BOOLEAN
  /\ interrupted \in BOOLEAN
  /\ result \in ErrorCode \cup {-1}

\* get_url returns 0 only when the consumer got every byte: as many as were
\* asked for, as many as the server announced, and all of a body that ended
\* where it should.  A signal can hide the last of these, and only that.
SuccessIsComplete ==
  result = 0 =>
    /\ len >= 0 => handed = len
    /\ declared >= 0 => handed = declared
    /\ \/ complete /\ handed = received
       \/ interrupted

\* When the server announces another size than the one asked for, the consumer
\* gets nothing of it.
WrongSizeNotRead == len >= 0 /\ declared \notin {-1, len} => handed = 0

\* get_url returns: redirects do not go on for ever.
Returns == <>(stage = "returned")

Promise == INSTANCE Transfer WITH
  delivered <- handed,
  outcome <- IF result = -1 THEN "running" ELSE IF result = 0 THEN "ok" ELSE "failed"

\* get_url keeps the promise of Transfer.
ImplementsTransfer == Promise!Spec
===============================================================================
