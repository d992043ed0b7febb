------------------------- MODULE RespondRequestProofs -------------------------
(***************************************************************************)
(* Theorems about RespondRequest, for any timeout, any number of replies   *)
(* and any times the kernel and the callback take.                         *)
(***************************************************************************)
EXTENDS RespondRequest, TLAPS

USE DEF OK, CANCEL, SysError

\* The account of the timeout: what is left is what was given, less the time
\* since the call, plus what was not charged.  In the loop it was drawn up just
\* now, in a wait at the reading of the clock before it; and a wait that has a
\* limit is not much older than that.
TimeInv ==
  /\ now <= clock
  /\ pc = "new" => now = 0 /\ timeout = limit /\ lost = 0
  /\ pc = "loop" => timeout = limit - clock + lost
  /\ pc \in {"wait", "callback"} => timeout = limit - now + lost
  /\ pc = "wait" /\ ~Unlimited => clock <= now + timeout + MaxLate

IInv == TypeOK /\ TimeInv /\ WaitsLongEnough

-------------------------------------------------------------------------------
\* The inductive invariant holds when respondd_request is called.
LEMMA InitInv == Init => IInv
<1> SUFFICES ASSUME Init PROVE IInv
  OBVIOUS
<1>1. limit \in Nat /\ queue \in Seq({"reply", "empty"})
  BY RequestAssumption DEF Init
<1>2. pc = "new" /\ now = 0 /\ clock = 0 /\ timeout = limit /\ lost = 0
  BY DEF Init
<1>3. TypeOK
  <2>1. limit \in Timeouts /\ queryOnly \in BOOLEAN /\ arrived = 0
        /\ stopped \in BOOLEAN /\ result = 0
    BY DEF Init
  <2> QED BY <1>1, <1>2, <2>1 DEF TypeOK
<1>4. TimeInv /\ WaitsLongEnough
  BY <1>1, <1>2 DEF TimeInv, Unlimited, WaitsLongEnough
<1> QED BY <1>3, <1>4 DEF IInv

\* The steps before the loop keep it: sending the query.
LEMMA SendInv == IInv /\ (SetupFails \/ SendOnly \/ Send) => IInv'
<1> SUFFICES ASSUME IInv, SetupFails \/ SendOnly \/ Send PROVE IInv'
  OBVIOUS
<1> USE RequestAssumption DEF IInv, TypeOK, TimeInv, Unlimited, WaitsLongEnough, Return
<1>1. CASE SetupFails
  BY <1>1 DEF SetupFails
<1>2. CASE SendOnly
  BY <1>2 DEF SendOnly
<1>3. CASE Send
  BY <1>3 DEF Send
<1> QED BY <1>1, <1>2, <1>3

\* The steps of the loop keep it.
LEMMA LoopInv ==
  IInv /\ (Stop \/ Wait \/ CallbackOk \/ CallbackEnds) => IInv'
<1> SUFFICES ASSUME IInv, Stop \/ Wait \/ CallbackOk \/ CallbackEnds PROVE IInv'
  OBVIOUS
<1> USE RequestAssumption DEF IInv, TypeOK, TimeInv, Unlimited, WaitsLongEnough, Return
<1>1. CASE Stop
  BY <1>1 DEF Stop, Elapsed
<1>2. CASE Wait
  BY <1>2 DEF Wait, Elapsed
<1>3. CASE CallbackOk
  BY <1>3 DEF CallbackOk
<1>4. CASE CallbackEnds
  <2>1. PICK res \in Results \ {OK} :
               \/ res = CANCEL /\ Return(0)
               \/ res # CANCEL /\ Return(res)
    BY <1>4 DEF CallbackEnds
  <2>2. pc' = "returned" /\ result' \in Results \cup {0, SysError} /\ queue' = <<>>
    BY <2>1
  <2>3. stopped' = TRUE
        /\ UNCHANGED <<limit, queryOnly, clock, now, timeout, arrived, lost>>
    BY <1>4 DEF CallbackEnds
  <2>4. queue' \in Seq({"reply", "empty"})
    BY <2>2
  <2> QED BY <2>2, <2>3, <2>4
<1> QED BY <1>1, <1>2, <1>3, <1>4

\* The outcomes of recvmsg keep it.
LEMMA RecvInv ==
  IInv /\ (Expire \/ RecvFails \/ Recv \/ RecvNothing) => IInv'
<1> SUFFICES ASSUME IInv, Expire \/ RecvFails \/ Recv \/ RecvNothing PROVE IInv'
  OBVIOUS
<1> USE RequestAssumption DEF IInv, TypeOK, TimeInv, Unlimited, WaitsLongEnough, Return
<1>1. CASE Expire
  BY <1>1 DEF Expire
<1>2. CASE RecvFails
  BY <1>2 DEF RecvFails
<1>3. CASE Recv
  BY <1>3 DEF Recv
<1>4. CASE RecvNothing
  BY <1>4 DEF RecvNothing
<1> QED BY <1>1, <1>2, <1>3, <1>4

\* The environment keeps it: time that passes and datagrams that arrive.
LEMMA EnvironmentInv == IInv /\ (Tick \/ Arrive) => IInv'
<1> SUFFICES ASSUME IInv, Tick \/ Arrive PROVE IInv'
  OBVIOUS
<1> USE RequestAssumption DEF IInv, TypeOK, TimeInv, Unlimited, WaitsLongEnough
<1>1. CASE Tick
  BY <1>1 DEF Tick
<1>2. CASE Arrive
  BY <1>2 DEF Arrive
<1> QED BY <1>1, <1>2

\* IInv is an invariant.
THEOREM InvariantHolds == Spec => []IInv
<1>1. IInv /\ [Next]_vars => IInv'
  <2> SUFFICES ASSUME IInv, [Next]_vars PROVE IInv'
    OBVIOUS
  <2>1. CASE Next
    BY <2>1, SendInv, LoopInv, RecvInv, EnvironmentInv DEF Next, Step, Fault
  <2>2. CASE UNCHANGED vars
    BY <2>2 DEF vars, IInv, TypeOK, TimeInv, Unlimited, WaitsLongEnough
  <2> QED BY <2>1, <2>2
<1> QED BY InitInv, <1>1, PTL DEF Spec

\* Every variable has its type; SO_RCVTIMEO is never negative.
THEOREM TypeCorrect == Spec => []TypeOK
<1>1. IInv => TypeOK
  BY DEF IInv
<1> QED BY <1>1, InvariantHolds, PTL

\* A wait ends in time, but for the one that begins with exactly nothing left.
THEOREM WaitsInTimeHolds == Spec => []WaitsInTime
<1>1. IInv => WaitsInTime
  BY RequestAssumption DEF IInv, TypeOK, TimeInv, Unlimited, WaitsInTime
<1> QED BY <1>1, InvariantHolds, PTL

\* A request that no reply ended took its whole time.
THEOREM WaitsLongEnoughHolds == Spec => []WaitsLongEnough
<1>1. IInv => WaitsLongEnough
  BY DEF IInv
<1> QED BY <1>1, InvariantHolds, PTL
===============================================================================
