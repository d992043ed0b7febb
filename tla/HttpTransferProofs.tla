-------------------------- MODULE HttpTransferProofs --------------------------
(***************************************************************************)
(* Theorems about HttpTransfer, for any sizes asked for, any bodies and    *)
(* any number of redirects.                                                *)
(***************************************************************************)
EXTENDS HttpTransfer, TLAPS

USE DEF Connect, TimedOut, BadRedirect, TooMany, Reset, SizeMismatch, StatusCode

\* Before the body nothing was read, and no error is noted before the end.
EarlyInv ==
  /\ stage \in {"new", "header"} =>
       /\ downloaded = 0 /\ handed = 0 /\ received = 0 /\ buffered = 0
       /\ declared = -1
  /\ stage \notin {"ended", "returned"} =>
       err_code = 0 /\ ~complete /\ ~interrupted
  /\ result # -1 <=> stage = "returned"

\* What was read was handed on, unless it was more than expected.
AccountInv ==
  /\ err_code # SizeMismatch => downloaded = handed
  /\ stage = "body" => buffered + handed = received
  /\ length >= 0 => handed <= length

\* The expected length is the one asked for and the one announced; when they
\* differ, the transfer ends before anything is read.
LengthInv ==
  /\ len >= 0 => length = len
  /\ declared < 0 => length = len
  /\ declared >= 0 =>
       \/ length = declared
       \/ handed = 0 /\ err_code = SizeMismatch /\ stage \in {"ended", "returned"}

\* How the transfer can have ended without an error.
EndInv ==
  /\ stage = "ended" /\ err_code = 0 =>
       \/ complete /\ handed = received
       \/ interrupted
  /\ result = 0 =>
       /\ err_code = 0
       /\ length >= 0 => downloaded = length
       /\ \/ complete /\ handed = received
          \/ interrupted

IInv == TypeOK /\ EarlyInv /\ AccountInv /\ LengthInv /\ EndInv

-------------------------------------------------------------------------------
\* The inductive invariant holds when get_url is called.
LEMMA InitInv == Init => IInv
<1> SUFFICES ASSUME Init PROVE IInv
  OBVIOUS
<1>1. len \in Nat \cup {-1} /\ length = len
  BY TransferAssumption DEF Init
<1>2. TypeOK
  <2>1. retries \in 0..MaxRedirects /\ received \in 0..MaxBody
    BY TransferAssumption DEF Init
  <2>2. err_code \in ErrorCode /\ result \in ErrorCode \cup {-1}
    BY DEF Init, ErrorCode
  <2>3. len \in Lengths /\ declared \in Nat \cup {-1}
    BY DEF Init
  <2>4. stage \in {"new", "header", "body", "ended", "returned"}
    BY DEF Init
  <2>5. downloaded \in Nat /\ buffered \in Nat /\ handed \in Nat
    BY DEF Init
  <2>6. complete \in BOOLEAN /\ interrupted \in BOOLEAN
    BY DEF Init
  <2> QED BY <1>1, <2>1, <2>2, <2>3, <2>4, <2>5, <2>6 DEF TypeOK
<1>3. EarlyInv /\ AccountInv /\ LengthInv /\ EndInv
  BY <1>1 DEF Init, EarlyInv, AccountInv, LengthInv, EndInv
<1> QED BY <1>2, <1>3 DEF IInv

\* Setting up the request keeps it.
LEMMA SetupInv ==
  ASSUME IInv, SetupFails \/ Request
  PROVE  IInv'
<1>1. CASE SetupFails
  BY <1>1 DEF SetupFails, IInv, TypeOK, EarlyInv, AccountInv, LengthInv, EndInv, ErrorCode
<1>2. CASE Request
  BY <1>2 DEF Request, IInv, TypeOK, EarlyInv, AccountInv, LengthInv, EndInv
<1> QED BY <1>1, <1>2

\* header_done_cb keeps it, for every kind of response.
LEMMA HeaderDoneInv ==
  ASSUME IInv, HeaderDone
  PROVE  IInv'
<1>1. CASE Redirect
  BY <1>1, TransferAssumption DEF Redirect, IInv, TypeOK, EarlyInv, AccountInv,
     LengthInv, EndInv
<1>2. CASE HeaderError
  BY <1>2 DEF HeaderError, request_done, IInv, TypeOK, EarlyInv, AccountInv,
     LengthInv, EndInv, ErrorCode
<1>3. CASE NoContentLength
  BY <1>3 DEF NoContentLength, IInv, TypeOK, EarlyInv, AccountInv, LengthInv, EndInv
<1>4. CASE ContentLength
  <2>1. PICK val \in 0..MaxBody :
          /\ declared' = val
          /\ \/ /\ length >= 0 /\ length # val
                /\ request_done(SizeMismatch)
                /\ UNCHANGED length
             \/ /\ length < 0 \/ length = val
                /\ stage' = "body"
                /\ length' = val
                /\ UNCHANGED <<err_code, buffered>>
    BY <1>4 DEF ContentLength
  <2>2. val \in Nat
    BY <2>1, TransferAssumption
  <2>3. CASE length >= 0 /\ length # val /\ request_done(SizeMismatch) /\ UNCHANGED length
    BY <1>4, <2>1, <2>2, <2>3 DEF ContentLength, request_done, IInv, TypeOK, EarlyInv,
       AccountInv, LengthInv, EndInv, ErrorCode
  <2>4. CASE /\ length < 0 \/ length = val
             /\ stage' = "body" /\ length' = val /\ UNCHANGED <<err_code, buffered>>
    BY <1>4, <2>1, <2>2, <2>4 DEF ContentLength, IInv, TypeOK, EarlyInv,
       AccountInv, LengthInv, EndInv, ErrorCode
  <2> QED BY <2>1, <2>3, <2>4
<1> QED BY <1>1, <1>2, <1>3, <1>4 DEF HeaderDone

\* Receiving, reading and the end of the body keep it.
LEMMA BodyInv ==
  ASSUME IInv, Receive \/ ReadAccount \/ Eof
  PROVE  IInv'
<1>1. CASE Receive
  BY <1>1, TransferAssumption DEF Receive, IInv, TypeOK, EarlyInv, AccountInv,
     LengthInv, EndInv
<1>2. CASE ReadAccount
  <2>1. PICK r \in 1..buffered :
          /\ downloaded' = downloaded + r
          /\ \/ /\ length >= 0 /\ downloaded' > length
                /\ request_done(SizeMismatch)
                /\ UNCHANGED handed
             \/ /\ length < 0 \/ downloaded' <= length
                /\ handed' = handed + r
                /\ buffered' = buffered - r
                /\ UNCHANGED <<stage, err_code>>
    BY <1>2 DEF ReadAccount
  <2>2. r \in Nat /\ r >= 1 /\ r <= buffered
    BY <2>1 DEF IInv, TypeOK
  <2>3. CASE length >= 0 /\ downloaded' > length /\ request_done(SizeMismatch) /\ UNCHANGED handed
    BY <1>2, <2>1, <2>2, <2>3 DEF ReadAccount, request_done, IInv, TypeOK, EarlyInv,
       AccountInv, LengthInv, EndInv, ErrorCode
  <2>4. CASE /\ length < 0 \/ downloaded' <= length
             /\ handed' = handed + r /\ buffered' = buffered - r
             /\ UNCHANGED <<stage, err_code>>
    BY <1>2, <2>1, <2>2, <2>4 DEF ReadAccount, IInv, TypeOK, EarlyInv,
       AccountInv, LengthInv, EndInv, ErrorCode
  <2> QED BY <2>1, <2>3, <2>4
<1>3. CASE Eof
  BY <1>3 DEF Eof, request_done, IInv, TypeOK, EarlyInv, AccountInv, LengthInv,
     EndInv, ErrorCode
<1> QED BY <1>1, <1>2, <1>3

\* Errors, signals and the return from get_url keep it.
LEMMA EndingInv ==
  ASSUME IInv, LibraryError \/ Interrupt \/ Return
  PROVE  IInv'
<1>1. CASE LibraryError
  BY <1>1 DEF LibraryError, request_done, IInv, TypeOK, EarlyInv, AccountInv,
     LengthInv, EndInv, ErrorCode
<1>2. CASE Interrupt
  BY <1>2 DEF Interrupt, IInv, TypeOK, EarlyInv, AccountInv, LengthInv, EndInv
<1>3. CASE Return
  BY <1>3 DEF Return, IInv, TypeOK, EarlyInv, AccountInv, LengthInv, EndInv, ErrorCode
<1> QED BY <1>1, <1>2, <1>3

\* Every step keeps the inductive invariant.
LEMMA InvariantKept == ASSUME IInv, [Next]_vars PROVE IInv'
<1>1. CASE UNCHANGED vars
  BY <1>1 DEF vars, IInv, TypeOK, EarlyInv, AccountInv, LengthInv, EndInv
<1>2. CASE Next
  BY <1>2, SetupInv, HeaderDoneInv, BodyInv, EndingInv DEF Next, Step
<1> QED BY <1>1, <1>2

\* The inductive invariant holds in every state of every behaviour.
LEMMA InvariantHolds == Spec => []IInv
BY InitInv, InvariantKept, PTL DEF Spec

\* Every variable keeps its type, and no more than MaxRedirects are followed.
THEOREM TypeCorrect == Spec => []TypeOK
<1>1. IInv => TypeOK
  BY DEF IInv
<1> QED BY <1>1, InvariantHolds, PTL

\* Success means that the consumer got the whole body, of the right size.
THEOREM SuccessIsCompleteHolds == Spec => []SuccessIsComplete
<1>1. IInv => SuccessIsComplete
  BY DEF IInv, TypeOK, EarlyInv, AccountInv, LengthInv, EndInv, SuccessIsComplete,
     ErrorCode
<1> QED BY <1>1, InvariantHolds, PTL

\* A body of the wrong size is not read.
THEOREM WrongSizeNotReadHolds == Spec => []WrongSizeNotRead
<1>1. IInv => WrongSizeNotRead
  BY TransferAssumption DEF IInv, TypeOK, LengthInv, WrongSizeNotRead
<1> QED BY <1>1, InvariantHolds, PTL

-------------------------------------------------------------------------------
(* The abstract specification                                              *)

\* Every step of get_url is a step of Transfer, or leaves its state alone.
LEMMA StepImplements ==
  ASSUME IInv, IInv', [Next]_vars
  PROVE  [Promise!Next]_(Promise!transferVars)
<1> USE DEF Promise!transferVars
<1>1. CASE UNCHANGED vars
  BY <1>1 DEF vars
<1>2. CASE SetupFails
  BY <1>2 DEF SetupFails, Promise!Next, Promise!Fail, IInv, EarlyInv
<1>3. CASE \/ Request \/ HeaderDone \/ Receive \/ Eof \/ LibraryError \/ Interrupt
  BY <1>3 DEF Request, HeaderDone, Redirect, HeaderError, NoContentLength,
     ContentLength, Receive, Eof, LibraryError, Interrupt
<1>4. CASE ReadAccount
  <2>1. stage = "body" /\ result = -1 /\ result' = -1 /\ len' = len
    BY <1>4 DEF ReadAccount, IInv, EarlyInv
  <2>2. /\ handed \in Nat /\ handed' \in Nat /\ buffered \in Nat
        /\ handed' = handed \/ handed' > handed
    BY <1>4 DEF ReadAccount, IInv, TypeOK
  <2>3. len >= 0 => handed' <= len
    BY <2>1, TransferAssumption DEF IInv, TypeOK, AccountInv, LengthInv
  <2> QED BY <2>1, <2>2, <2>3 DEF Promise!Next, Promise!Deliver
<1>5. CASE Return
  <2>1. result = -1 /\ result' # -1 /\ UNCHANGED <<len, handed>>
    BY <1>5 DEF Return, IInv, EarlyInv
  <2>2. CASE result' = 0
    <3>1. len >= 0 => handed = len
      BY <1>5, <2>2, TransferAssumption DEF Return, IInv, TypeOK, AccountInv, LengthInv
    <3> QED BY <2>1, <2>2, <3>1 DEF Promise!Next, Promise!Succeed
  <2>3. CASE result' # 0
    BY <2>1, <2>3 DEF Promise!Next, Promise!Fail
  <2> QED BY <2>2, <2>3
<1> QED BY <1>1, <1>2, <1>3, <1>4, <1>5 DEF Next, Step

\* get_url implements Transfer.
THEOREM Implements == Spec => ImplementsTransfer
<1>1. Init => Promise!Init
  BY DEF Init, Promise!Init
<1>2. IInv /\ IInv' /\ [Next]_vars => [Promise!Next]_(Promise!transferVars)
  BY StepImplements
<1> QED BY <1>1, <1>2, InvariantHolds, PTL
        DEF Spec, ImplementsTransfer, Promise!Spec
===============================================================================
