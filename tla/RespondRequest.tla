---------------------------- MODULE RespondRequest ----------------------------
(***************************************************************************)
(* One call of respondd_request: src/librespondd/src/librespondd.c.  It    *)
(* multicasts a query and hands every reply to a callback until a timeout  *)
(* has passed.  Time is the monotonic clock, in the unit of a struct       *)
(* timeval, counted from the call.  The socket is external: replies arrive *)
(* in its queue, and recvmsg blocks until there is one or SO_RCVTIMEO has  *)
(* passed, where a SO_RCVTIMEO of zero means no limit.                     *)
(***************************************************************************)
EXTENDS Integers, Sequences

CONSTANTS
  Timeouts,     \* timeouts that are asked for
  Results,      \* what the callback may return
  MaxReplies,   \* BOUND: datagrams that arrive
  MaxLate,      \* how late the kernel may end a wait that has a limit
  MaxBlocked,   \* BOUND: how long past the timeout sending, a callback or a wait
                \* without limit goes on
  MaxLost       \* BOUND: time between one reading of the clock and the next

OK       == 0     \* RESPONDD_CB_OK
CANCEL   == 1     \* RESPONDD_CB_CANCEL
SysError == -1    \* -errno, or -1

ASSUME RequestAssumption ==
  /\ Timeouts \subseteq Nat
  /\ Results \subseteq Nat
  /\ MaxReplies \in Nat
  /\ MaxLate \in Nat
  /\ MaxBlocked \in Nat
  /\ MaxLost \in Nat

VARIABLES
  pc,        \* "new", "loop", "wait" (in recvmsg), "callback", "returned"
  limit,     \* the parameter timeout_
  queryOnly, \* the parameter callback is NULL
  clock,     \* CLOCK_MONOTONIC
  now,       \* the variable of that name
  timeout,   \* what is left of the timeout
  queue,     \* the socket's receive queue: "reply" or "empty" datagrams
  arrived,   \* datagrams that arrived so far
  lost,      \* history: time that was not charged to the timeout
  stopped,   \* history: a reply ended the request early
  result     \* the variable err

vars == <<pc, limit, queryOnly, clock, now, timeout, queue, arrived, lost,
          stopped, result>>

Init ==
  /\ pc = "new"
  /\ limit \in Timeouts
  /\ queryOnly \in BOOLEAN
  /\ clock = 0
  /\ now = 0
  /\ timeout = limit
  /\ queue = <<>>
  /\ arrived = 0
  /\ lost = 0
  /\ stopped = FALSE
  /\ result = 0

-------------------------------------------------------------------------------
(* The environment                                                         *)

\* recvmsg was called with SO_RCVTIMEO zero: nothing but a datagram ends it.
Unlimited == pc = "wait" /\ timeout = 0

\* Time passes.  What passes while the clock was read and is about to be read
\* again is nobody's.  Only a wait with a limit has to end.
Tick ==
  /\ clock' = clock + 1
  /\ \/ /\ pc = "wait" /\ ~Unlimited
        /\ clock < now + timeout + MaxLate
        /\ UNCHANGED lost
     \/ /\ pc \in {"new", "callback"} \/ Unlimited
        /\ clock < now + timeout + MaxBlocked
        /\ UNCHANGED lost
     \/ /\ pc = "loop"
        /\ lost < MaxLost
        /\ lost' = lost + 1
  /\ UNCHANGED <<pc, limit, queryOnly, now, timeout, queue, arrived, stopped, result>>

\* A datagram arrives; a neighbour may send one without content.
Arrive ==
  /\ pc \in {"loop", "wait", "callback"}
  /\ arrived < MaxReplies
  /\ arrived' = arrived + 1
  /\ \E d \in {"reply", "empty"} : queue' = Append(queue, d)
  /\ UNCHANGED <<pc, limit, queryOnly, clock, now, timeout, lost, stopped, result>>

-------------------------------------------------------------------------------
(* respondd_request                                                        *)

\* close the socket and return.
Return(err) ==
  /\ pc' = "returned"
  /\ result' = err
  /\ queue' = <<>>

\* socket, setsockopt or sendto fails.
SetupFails ==
  /\ pc = "new"
  /\ Return(SysError)
  /\ UNCHANGED <<limit, queryOnly, clock, now, timeout, arrived, lost, stopped>>

\* The query is sent, and nobody waits for replies.
SendOnly ==
  /\ pc = "new"
  /\ queryOnly
  /\ Return(0)
  /\ UNCHANGED <<limit, queryOnly, clock, now, timeout, arrived, lost, stopped>>

\* The query is sent; the time that took is charged to the timeout.
Send ==
  /\ pc = "new"
  /\ ~queryOnly
  /\ pc' = "loop"
  /\ timeout' = timeout - (clock - now)
  /\ UNCHANGED <<limit, queryOnly, clock, now, queue, arrived, lost, stopped, result>>

\* Mutant: a negative timeout is not noticed when the seconds are zero.
ElapsedLate == timeout < -1

\* timeout_elapsed: timersub normalises to 0 <= tv_usec, so tv_sec < 0 means
\* that less than nothing is left.
Elapsed == timeout < 0

Stop ==
  /\ pc = "loop"
  /\ Elapsed
  /\ Return(0)
  /\ UNCHANGED <<limit, queryOnly, clock, now, timeout, arrived, lost, stopped>>

\* Read the clock and call recvmsg with SO_RCVTIMEO = timeout.
Wait ==
  /\ pc = "loop"
  /\ ~Elapsed
  /\ pc' = "wait"
  /\ now' = clock
  /\ UNCHANGED <<limit, queryOnly, clock, timeout, queue, arrived, lost, stopped, result>>

\* Mutant: recvmsg is called with MSG_DONTWAIT.
ExpireAtOnce ==
  /\ pc = "wait"
  /\ queue = <<>>
  /\ Return(0)
  /\ UNCHANGED <<limit, queryOnly, clock, now, timeout, arrived, lost, stopped>>

\* Mutant: SO_RCVTIMEO gets the timeout without its last digit.
ExpireRoundedDown ==
  /\ pc = "wait"
  /\ queue = <<>>
  /\ timeout > 1
  /\ clock - now >= timeout
  /\ Return(0)
  /\ UNCHANGED <<limit, queryOnly, clock, now, timeout, arrived, lost, stopped>>

\* recvmsg gives up: EAGAIN.  The kernel waits for ever when timeout is zero.
Expire ==
  /\ pc = "wait"
  /\ queue = <<>>
  /\ ~Unlimited
  /\ clock - now >= timeout
  /\ Return(0)
  /\ UNCHANGED <<limit, queryOnly, clock, now, timeout, arrived, lost, stopped>>

\* setsockopt or recvmsg fails.
RecvFails ==
  /\ pc = "wait"
  /\ Return(SysError)
  /\ UNCHANGED <<limit, queryOnly, clock, now, timeout, arrived, lost, stopped>>

Recv ==
  /\ pc = "wait"
  /\ queue # <<>>
  /\ Head(queue) = "reply"
  /\ pc' = "callback"
  /\ queue' = Tail(queue)
  /\ UNCHANGED <<limit, queryOnly, clock, now, timeout, arrived, lost, stopped, result>>

\* recvmsg returns 0, which is taken for a socket that was shut down.
RecvNothing ==
  /\ pc = "wait"
  /\ queue # <<>>
  /\ Head(queue) = "empty"
  /\ stopped' = TRUE
  /\ Return(0)
  /\ UNCHANGED <<limit, queryOnly, clock, now, timeout, arrived, lost>>

\* Mutant: the timeout starts anew with every reply.
CallbackOkRestarts ==
  /\ pc = "callback"
  /\ OK \in Results
  /\ pc' = "loop"
  /\ UNCHANGED <<limit, queryOnly, clock, now, timeout, queue, arrived, lost, stopped, result>>

\* The callback wants more: charge the wait and the callback to the timeout.
CallbackOk ==
  /\ pc = "callback"
  /\ OK \in Results
  /\ pc' = "loop"
  /\ timeout' = timeout - (clock - now)
  /\ UNCHANGED <<limit, queryOnly, clock, now, queue, arrived, lost, stopped, result>>

\* The callback ends the request, or reports an error.
CallbackEnds ==
  /\ pc = "callback"
  /\ \E res \in Results \ {OK} :
       \/ res = CANCEL /\ Return(0)
       \/ res # CANCEL /\ Return(res)
  /\ stopped' = TRUE
  /\ UNCHANGED <<limit, queryOnly, clock, now, timeout, arrived, lost>>

Step == \/ SendOnly \/ Send
        \/ Stop \/ Wait
        \/ Expire \/ Recv \/ RecvNothing
        \/ CallbackOk \/ CallbackEnds

Fault == SetupFails \/ RecvFails

Next == Step \/ Fault \/ Tick \/ Arrive

Spec == Init /\ [][Next]_vars

\* The process is scheduled and its callback returns; time does not stand still.
\* No system call has to fail.
FairSpec == Spec /\ WF_vars(Step) /\ WF_vars(Tick)

-------------------------------------------------------------------------------
(* Properties                                                              *)

\* Every variable has its type.  While a call waits or its callback runs the
\* timeout is not negative: setsockopt would refuse it.
TypeOK ==
  /\ pc \in {"new", "loop", "wait", "callback", "returned"}
  /\ limit \in Timeouts
  /\ queryOnly \in BOOLEAN
  /\ clock \in Nat
  /\ now \in Nat
  /\ timeout \in Int
  /\ queue \in Seq({"reply", "empty"})
  /\ arrived \in Nat
  /\ lost \in Nat
  /\ stopped \in BOOLEAN
  /\ result \in Results \cup {0, SysError}
  /\ pc \in {"wait", "callback"} => timeout >= 0

\* However many replies come and however long their callbacks take, recvmsg is
\* over when the timeout has passed, but for the time that went by between two
\* readings of the clock and for the kernel's delay.  The exception is a wait
\* that begins at the very moment the timeout has passed: it has no limit.
WaitsInTime ==
  pc = "wait" => \/ ~Unlimited /\ clock <= limit + lost + MaxLate
                 \/ Unlimited /\ now = limit + lost

\* A request that went well and that no reply ended took its whole time: the
\* replies of slow neighbours are waited for.
WaitsLongEnough ==
  pc = "returned" /\ result = 0 /\ ~queryOnly /\ ~stopped => clock >= limit

\* The request returns, unless exactly nothing was left of the timeout after
\* some reply: then the next recvmsg has no limit and no reply need ever come.
ReturnsOrBlocks ==
  <>(pc = "returned") \/ <>[]Unlimited

\* "Not an error, timeout elapsed": a recvmsg without reply ends by its timeout,
\* and with it the request.
RequestReturns == <>(pc = "returned")
===============================================================================
