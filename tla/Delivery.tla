------------------------------- MODULE Delivery -------------------------------
(***************************************************************************)
(* What the client of the proxy can count on: the mirrors are tried one    *)
(* after the other, a mirror's data follows its header, nothing follows a  *)
(* whole answer, and the proxy gives up only when no mirror is left.  A    *)
(* mirror that fails half way leaves its part in the reply.                *)
(***************************************************************************)
EXTENDS Integers, Sequences

VARIABLES
  reply,    \* the parts of the reply, some of them not sent yet
  source,   \* the mirror in use, counted from one
  left,     \* mirrors not tried yet
  whole,    \* has a mirror answered in full?
  open      \* is the reply still open?

deliveryVars == <<reply, source, left, whole, open>>

Header(m) == [mirror |-> m, part |-> "header"]
Chunk(m)  == [mirror |-> m, part |-> "data"]

Has(parts, x) == \E i \in DOMAIN parts : parts[i] = x

Init == reply = <<>> /\ source = 0 /\ left = 0 /\ ~whole /\ open

\* The mirrors are known.
Plan ==
  /\ open
  /\ source = 0 /\ left = 0
  /\ left' \in Nat
  /\ UNCHANGED <<reply, source, whole, open>>

Turn ==
  /\ open /\ ~whole
  /\ left > 0
  /\ left' = left - 1
  /\ source' = source + 1
  /\ UNCHANGED <<reply, whole, open>>

GiveHeader ==
  /\ open /\ ~whole
  /\ source > 0
  /\ ~Has(reply, Header(source))
  /\ reply' = Append(reply, Header(source))
  /\ UNCHANGED <<source, left, whole, open>>

GiveData ==
  /\ open /\ ~whole
  /\ Has(reply, Header(source))
  /\ reply' = Append(reply, Chunk(source))
  /\ UNCHANGED <<source, left, whole, open>>

Succeed ==
  /\ open /\ ~whole
  /\ source > 0
  /\ whole' = TRUE
  /\ UNCHANGED <<reply, source, left, open>>

Close ==
  /\ open
  /\ whole \/ left = 0
  /\ open' = FALSE
  /\ UNCHANGED <<reply, source, left, whole>>

\* The process dies; headers that were not sent are lost.
Die ==
  /\ open
  /\ open' = FALSE
  /\ \E k \in 0..Len(reply) :
       /\ \A i \in (k + 1)..Len(reply) : reply[i].part = "header"
       /\ reply' = SubSeq(reply, 1, k)
  /\ UNCHANGED <<source, left, whole>>

Next == Plan \/ Turn \/ GiveHeader \/ GiveData \/ Succeed \/ Close \/ Die

Spec == Init /\ [][Next]_deliveryVars
===============================================================================
