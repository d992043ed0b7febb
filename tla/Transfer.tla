------------------------------- MODULE Transfer -------------------------------
(***************************************************************************)
(* What get_url promises its callers: the consumer gets at most as many    *)
(* bytes as were asked for, and success means it got exactly that many.    *)
(* autoupdate() relies on it when it downloads the image; Autoupdater.tla  *)
(* has Deliver as RecvChunk and WriteFails, Succeed as ImageDone and Fail  *)
(* as ImageError.                                                          *)
(***************************************************************************)
EXTENDS Integers

CONSTANT Lengths   \* sizes that may be asked for; -1 when any will do

VARIABLES
  len,         \* bytes asked for: the parameter of get_url
  delivered,   \* bytes the consumer got
  outcome      \* "running", then "ok" or "failed"

transferVars == <<len, delivered, outcome>>

Init == len \in Lengths /\ delivered = 0 /\ outcome = "running"

\* The consumer gets some more bytes.
Deliver ==
  /\ outcome = "running"
  /\ delivered' \in Nat
  /\ delivered' > delivered
  /\ len >= 0 => delivered' <= len
  /\ UNCHANGED <<len, outcome>>

Succeed ==
  /\ outcome = "running"
  /\ len >= 0 => delivered = len
  /\ outcome' = "ok"
  /\ UNCHANGED <<len, delivered>>

Fail ==
  /\ outcome = "running"
  /\ outcome' = "failed"
  /\ UNCHANGED <<len, delivered>>

Next == Deliver \/ Succeed \/ Fail

Spec == Init /\ [][Next]_transferVars
===============================================================================
