------------------------- MODULE MeshNeighboursProofs -------------------------
(***************************************************************************)
(* Theorems about MeshNeighbours, for any interfaces, devices, neighbours  *)
(* and replies.                                                            *)
(***************************************************************************)
EXTENDS MeshNeighbours, TLAPS

Asking == {"ask", "replies", "walk"}

\* Before the first request there are no neighbours.
EarlyInv ==
  /\ pc = "start" => dump = <<>> /\ interfaces = {}
  /\ pc \in {"start", "parse"} =>
       todo = {} /\ neighbours_if = {} /\ neighbours = {} /\ failures = {}

\* The list holds only first interfaces of a device and, while it is built, the
\* first one of every device read so far.
FirstInv ==
  /\ \A i \in interfaces : First(i)
  /\ pc = "parse" =>
       \A j \in DOMAIN dump :
         dump[j].device # Null =>
           \E i \in interfaces : i <= j /\ Index(i) = Index(j)

\* Only mesh interfaces are left when requests begin.
MeshInv == pc \in Asking => \A i \in interfaces : dump[i].mesh

\* Where the requests are: the neighbours in the list come from interfaces that
\* were asked before, those in neighbours_if from the one being asked.
TodoInv ==
  /\ pc \in {"ask", "replies"} => todo \subseteq interfaces
  /\ pc \in {"ask", "replies"} => \A n \in neighbours : n.iface \notin todo
  /\ pc # "replies" => neighbours_if = {}
  /\ pc = "replies" =>
       /\ iface \in interfaces /\ iface \notin todo /\ dump[iface].up
       /\ \A n \in neighbours : n.iface # iface
       /\ \A n \in neighbours_if : n.iface = iface

\* A failure is remembered until all were asked.
ErrInv ==
  /\ pc \in {"ask", "replies"} /\ failures # {} => err = "request"
  /\ pc = "walk" => failures = {}

IInv ==
  /\ TypeOK /\ EarlyInv /\ FirstInv /\ MeshInv /\ TodoInv /\ ErrInv
  /\ NoDanglingInterface /\ OnlyMeshNeighbours /\ NoNeighbourTwice
  /\ FirstOnDevice

-------------------------------------------------------------------------------
\* The inductive invariant holds in the beginning.
LEMMA InitInv == Init => IInv
<1> SUFFICES ASSUME Init PROVE IInv
  OBVIOUS
<1>1. TypeOK
  <2>1. dump \in Seq(Entries) /\ Len(dump) <= MaxEntries
    BY NeighboursAssumption DEF Init
  <2> QED BY <2>1 DEF Init, TypeOK
<1>2. EarlyInv /\ FirstInv /\ MeshInv /\ TodoInv /\ ErrInv
  BY DEF Init, EarlyInv, FirstInv, MeshInv, TodoInv, ErrInv, Asking
<1>3. NoDanglingInterface /\ OnlyMeshNeighbours /\ NoNeighbourTwice /\ FirstOnDevice
  BY DEF Init, NoDanglingInterface, OnlyMeshNeighbours, NoNeighbourTwice, FirstOnDevice
<1> QED BY <1>1, <1>2, <1>3 DEF IInv

-------------------------------------------------------------------------------
(* Reading netifd's answer                                                 *)

\* What an entry that is read does to the answer.
LEMMA ReadFacts ==
  ASSUME TypeOK, NEW e \in Entries, Read(e)
  PROVE  /\ dump' \in Seq(Entries)
         /\ Len(dump') = Len(dump) + 1
         /\ Len(dump') <= MaxEntries
         /\ DOMAIN dump' = DOMAIN dump \cup {Len(dump) + 1}
         /\ \A i \in DOMAIN dump : dump'[i] = dump[i]
         /\ dump'[Len(dump) + 1] = e
         /\ DOMAIN dump = 1..Len(dump)
         /\ Len(dump) \in Nat
BY NeighboursAssumption DEF TypeOK, Read

\* Entries read before stay first, or not, on their device.
LEMMA FirstKept ==
  ASSUME TypeOK, NEW e \in Entries, Read(e), NEW i \in DOMAIN dump, First(i)
  PROVE  First(i)'
<1>1. i \in 1..Len(dump) /\ Len(dump) \in Nat
  BY ReadFacts
<1>2. \A j \in 1..i : j \in DOMAIN dump
  BY <1>1, ReadFacts
<1>3. \A j \in 1..i : dump'[j] = dump[j]
  BY <1>2, ReadFacts
<1>4. i \in 1..i /\ \A j \in 1..(i - 1) : j \in 1..i
  BY <1>1
<1> QED BY <1>3, <1>4 DEF First, Index

\* BadEntry, NoMemory and failures of ubus keep the invariant: nothing is left
\* that it speaks about.
LEMMA GiveUpInv ==
  IInv /\ (DumpFails \/ BadEntry \/ NoMemory \/ InvokeFails) => IInv'
<1> SUFFICES ASSUME IInv, DumpFails \/ BadEntry \/ NoMemory \/ InvokeFails
             PROVE  IInv'
  OBVIOUS
<1> USE DEF IInv, TypeOK, EarlyInv, FirstInv, MeshInv, TodoInv, ErrInv, Asking,
            NoDanglingInterface, OnlyMeshNeighbours, NoNeighbourTwice,
            FirstOnDevice
<1>1. CASE DumpFails
  BY <1>1 DEF DumpFails
<1>2. CASE BadEntry
  <2>1. PICK e \in Entries : Read(e) /\ ~e.valid
    BY <1>2 DEF BadEntry
  <2>2. /\ dump' \in Seq(Entries) /\ Len(dump') <= MaxEntries
        /\ DOMAIN dump \subseteq DOMAIN dump'
    BY <2>1, ReadFacts
  <2>3. pc = "parse"
    BY <2>1 DEF Read
  <2> QED BY <1>2, <2>2, <2>3 DEF BadEntry
<1>3. CASE NoMemory
  BY <1>3 DEF NoMemory
<1>4. CASE InvokeFails
  BY <1>4 DEF InvokeFails, First, Index
<1> QED BY <1>1, <1>2, <1>3, <1>4

\* An entry that is skipped, or added when it is the first of its device, keeps
\* the invariant.
LEMMA EntryInv == IInv /\ (SkipEntry \/ AddEntry) => IInv'
<1> SUFFICES ASSUME IInv, SkipEntry \/ AddEntry PROVE IInv'
  OBVIOUS
<1>1. PICK e \in Entries :
        /\ Read(e)
        /\ \/ e.device = Null /\ interfaces' = interfaces
           \/ /\ e.device # Null
              /\ interfaces' = IF Known(e.device) THEN interfaces
                               ELSE interfaces \cup {Len(dump) + 1}
  BY DEF SkipEntry, AddEntry
<1>2. /\ pc = "parse"
      /\ err' \in {"ENOENT", "none"}
      /\ UNCHANGED <<pc, todo, iface, neighbours_if, neighbours, replies, failures>>
  BY <1>1 DEF SkipEntry, AddEntry, Read
<1>n. PICK n \in Nat : n = Len(dump) + 1
  BY DEF IInv, TypeOK
<1>3. /\ TypeOK /\ EarlyInv /\ FirstInv
      /\ todo = {} /\ neighbours_if = {} /\ neighbours = {} /\ failures = {}
  BY <1>2 DEF IInv, EarlyInv
<1>4. /\ dump' \in Seq(Entries)
      /\ Len(dump') <= MaxEntries
      /\ DOMAIN dump' = DOMAIN dump \cup {n}
      /\ \A i \in DOMAIN dump : dump'[i] = dump[i]
      /\ dump'[n] = e
      /\ DOMAIN dump = 1..(n - 1)
      /\ n \in Nat
  <2>1. dump' \in Seq(Entries) /\ Len(dump') <= MaxEntries
    BY <1>1, <1>3, ReadFacts
  <2>2. DOMAIN dump' = DOMAIN dump \cup {n} /\ DOMAIN dump = 1..Len(dump)
    BY <1>1, <1>3, <1>n, ReadFacts
  <2>3. dump'[n] = e /\ \A i \in DOMAIN dump : dump'[i] = dump[i]
    BY <1>1, <1>3, <1>n, ReadFacts
  <2>4. Len(dump) \in Nat /\ Len(dump) = n - 1
    BY <1>1, <1>3, <1>n, ReadFacts
  <2> QED BY <2>1, <2>2, <2>3, <2>4
<1>5. interfaces \subseteq DOMAIN dump /\ interfaces' \subseteq DOMAIN dump'
  BY <1>1, <1>3, <1>4, <1>n DEF TypeOK
<1>6. TypeOK'
  BY <1>2, <1>3, <1>4, <1>5 DEF TypeOK
<1>7. \A i \in interfaces : First(i)'
  BY <1>1, <1>3, <1>5, FirstKept DEF FirstInv
<1>8. \A i \in interfaces : Index(i)' = Index(i)
  BY <1>4, <1>5 DEF Index
<1>9. \A j \in DOMAIN dump : dump'[j].device = dump[j].device /\ Index(j)' = Index(j)
  BY <1>4 DEF Index
<1>10. ASSUME e.device # Null, ~Known(e.device) PROVE First(n)'
  <2>1. ASSUME NEW j \in 1..(n - 1), dump'[j].device # Null
        PROVE  Index(j)' # Index(n)'
    <3>1. j \in DOMAIN dump /\ dump[j].device # Null
      BY <1>4, <1>9, <2>1
    <3>2. PICK i \in interfaces : Index(i) = Index(j)
      BY <1>2, <1>3, <3>1 DEF FirstInv
    <3>3. Index(i) # IfIndex[e.device]
      BY <1>10 DEF Known
    <3> QED BY <1>4, <1>9, <3>1, <3>2, <3>3 DEF Index
  <2> QED BY <1>4, <1>10, <2>1 DEF First
<1>11. \A i \in interfaces' : First(i)'
  BY <1>1, <1>7, <1>10, <1>n
<1>12. ASSUME NEW j \in DOMAIN dump', dump'[j].device # Null
       PROVE  \E i \in interfaces' : i <= j /\ Index(i)' = Index(j)'
  <2>0. interfaces \subseteq interfaces'
    BY <1>1
  <2>1. CASE j \in DOMAIN dump
    <3>1. PICK i \in interfaces : i <= j /\ Index(i) = Index(j)
      BY <1>2, <1>3, <1>9, <1>12, <2>1 DEF FirstInv
    <3> QED BY <1>8, <1>9, <2>0, <2>1, <3>1
  <2>2. CASE j = n /\ Known(e.device)
    <3>1. PICK i \in interfaces : Index(i) = IfIndex[e.device]
      BY <2>2 DEF Known
    <3>2. i <= n
      BY <1>4, <1>5, <3>1
    <3> QED BY <1>4, <1>8, <2>0, <2>2, <3>1, <3>2 DEF Index
  <2>3. CASE j = n /\ ~Known(e.device)
    <3>1. n \in interfaces'
      BY <1>1, <1>4, <1>12, <1>n, <2>3
    <3> QED BY <1>4, <2>3, <3>1
  <2> QED BY <1>4, <1>12, <2>1, <2>2, <2>3
<1>13. FirstInv'
  BY <1>11, <1>12 DEF FirstInv
<1>14. (EarlyInv /\ MeshInv /\ TodoInv /\ ErrInv)'
  BY <1>2, <1>3 DEF EarlyInv, MeshInv, TodoInv, ErrInv, Asking
<1>15. (NoDanglingInterface /\ OnlyMeshNeighbours /\ NoNeighbourTwice /\ FirstOnDevice)'
  BY <1>2, <1>3 DEF NoDanglingInterface, OnlyMeshNeighbours, NoNeighbourTwice,
                    FirstOnDevice
<1> QED BY <1>6, <1>13, <1>14, <1>15 DEF IInv

\* The whole answer was read: those first on their device were collected, and
\* the mesh interfaces among them stay.
LEMMA KeepMeshInv == IInv /\ (DumpArrives \/ KeepMesh) => IInv'
<1> SUFFICES ASSUME IInv, DumpArrives \/ KeepMesh PROVE IInv'
  OBVIOUS
<1>1. CASE DumpArrives
  BY <1>1 DEF DumpArrives, IInv, TypeOK, EarlyInv, FirstInv, MeshInv, TodoInv,
              ErrInv, Asking, NoDanglingInterface, OnlyMeshNeighbours,
              NoNeighbourTwice, FirstOnDevice, First, Index
<1>2. CASE KeepMesh
  <2>1. /\ pc = "parse" /\ pc' = "ask" /\ err' = "none"
        /\ interfaces' = {i \in interfaces : dump[i].mesh}
        /\ todo' = interfaces'
        /\ UNCHANGED <<dump, iface, neighbours_if, neighbours, replies, failures>>
    BY <1>2 DEF KeepMesh
  <2>2. /\ TypeOK /\ FirstInv
        /\ neighbours_if = {} /\ neighbours = {} /\ failures = {}
    BY <2>1 DEF IInv, EarlyInv
  <2>3. TypeOK'
    BY <2>1, <2>2 DEF TypeOK
  <2>4. \A i : First(i)' = First(i) /\ Index(i)' = Index(i)
    BY <2>1 DEF First, Index
  <2>5. (EarlyInv /\ FirstInv /\ MeshInv /\ TodoInv /\ ErrInv)'
    BY <2>1, <2>2, <2>4 DEF EarlyInv, FirstInv, MeshInv, TodoInv, ErrInv, Asking
  <2>6. (NoDanglingInterface /\ OnlyMeshNeighbours /\ NoNeighbourTwice)'
    BY <2>1, <2>2 DEF NoDanglingInterface, OnlyMeshNeighbours, NoNeighbourTwice
  <2>7. ASSUME NEW j \in DOMAIN dump, First(j) PROVE j \in interfaces
    <3>1. PICK i \in interfaces : i <= j /\ Index(i) = Index(j)
      BY <2>1, <2>2, <2>7 DEF FirstInv, First
    <3>2. First(i) /\ i \in DOMAIN dump
      BY <2>2, <3>1 DEF FirstInv, TypeOK
    <3>3. i \in Nat /\ j \in Nat /\ i >= 1
      BY <2>2, <3>2 DEF TypeOK
    <3>4. ~(i < j)
      BY <2>7, <3>1, <3>2, <3>3 DEF First
    <3> QED BY <3>1, <3>3, <3>4
  <2>8. interfaces' = {i \in DOMAIN dump : First(i) /\ dump[i].mesh}
    BY <2>1, <2>2, <2>7 DEF FirstInv, TypeOK
  <2>9. FirstOnDevice'
    BY <2>1, <2>4, <2>8 DEF FirstOnDevice
  <2> QED BY <2>3, <2>5, <2>6, <2>9 DEF IInv
<1> QED BY <1>1, <1>2

-------------------------------------------------------------------------------
(* The requests                                                            *)

\* The requests leave netifd's answer and the list of interfaces alone, so
\* what holds of these stays.
LEMMA InterfacesKept ==
  ASSUME IInv, UNCHANGED <<dump, interfaces>>, pc \in Asking, pc' \in Asking
  PROVE  (FirstInv /\ MeshInv /\ FirstOnDevice)'
<1>1. \A i : First(i)' = First(i) /\ Index(i)' = Index(i)
  BY DEF First, Index
<1> QED BY <1>1 DEF IInv, FirstInv, MeshInv, FirstOnDevice, Asking

\* Going to the next interface, and asking it, keeps the invariant.
LEMMA AskInv == IInv /\ (SkipDown \/ Ask) => IInv'
<1> SUFFICES ASSUME IInv, SkipDown \/ Ask PROVE IInv'
  OBVIOUS
<1>1. /\ pc = "ask"
      /\ pc' \in {"ask", "replies"}
      /\ UNCHANGED <<dump, interfaces, neighbours_if, neighbours, err, failures>>
  BY DEF SkipDown, Ask
<1>2. PICK i \in todo : /\ todo' = todo \ {i}
                        /\ \/ pc' = "ask" /\ UNCHANGED <<iface, replies>>
                           \/ /\ pc' = "replies" /\ iface' = i /\ replies' = 0
                              /\ dump[i].up
  BY DEF SkipDown, Ask
<1>3. TypeOK' /\ EarlyInv' /\ ErrInv'
  BY <1>1, <1>2 DEF IInv, TypeOK, EarlyInv, ErrInv
<1>4. TodoInv'
  BY <1>1, <1>2 DEF IInv, TodoInv
<1>5. (NoDanglingInterface /\ OnlyMeshNeighbours /\ NoNeighbourTwice)'
  BY <1>1, <1>2 DEF IInv, TodoInv, NoDanglingInterface, OnlyMeshNeighbours,
                    NoNeighbourTwice, Index
<1>6. (FirstInv /\ MeshInv /\ FirstOnDevice)'
  BY <1>1, InterfacesKept DEF Asking
<1> QED BY <1>3, <1>4, <1>5, <1>6 DEF IInv

\* Interfaces in the list are on different devices.
LEMMA DifferentDevices ==
  ASSUME TypeOK, FirstInv, NEW i \in interfaces, NEW j \in interfaces,
         Index(i) = Index(j)
  PROVE  i = j
<1>1. i \in Nat /\ j \in Nat /\ i >= 1 /\ j >= 1
  BY DEF TypeOK
<1>2. First(i) /\ First(j)
  BY DEF FirstInv
<1>3. ~(i < j) /\ ~(j < i)
  BY <1>1, <1>2 DEF First
<1> QED BY <1>1, <1>3

\* A reply keeps the invariant: a new neighbour is unlike those of this
\* interface by its name and unlike all others by its device.
LEMMA ReplyInv == IInv /\ Reply => IInv'
<1> SUFFICES ASSUME IInv, Reply PROVE IInv'
  OBVIOUS
<1>1. /\ pc = "replies"
      /\ replies' = replies + 1
      /\ UNCHANGED <<pc, dump, interfaces, todo, iface, neighbours, err, failures>>
  BY DEF Reply
<1>2. PICK id \in NodeIds :
        neighbours_if' =
          IF \E n \in neighbours_if : n.nodeid = id
          THEN neighbours_if
          ELSE neighbours_if \cup {[nodeid |-> id, iface |-> iface, nr |-> replies]}
  BY DEF Reply
<1> DEFINE new == [nodeid |-> id, iface |-> iface, nr |-> replies]
<1>3. (FirstInv /\ MeshInv /\ FirstOnDevice)'
  BY <1>1, InterfacesKept DEF Asking
<1>4. EarlyInv' /\ ErrInv'
  BY <1>1 DEF IInv, EarlyInv, ErrInv
<1>5. CASE \E n \in neighbours_if : n.nodeid = id
  <2>1. neighbours_if' = neighbours_if
    BY <1>2, <1>5
  <2>2. TypeOK' /\ TodoInv'
    BY <1>1, <2>1 DEF IInv, TypeOK, TodoInv
  <2>3. (NoDanglingInterface /\ OnlyMeshNeighbours /\ NoNeighbourTwice)'
    BY <1>1, <2>1 DEF IInv, NoDanglingInterface, OnlyMeshNeighbours,
                      NoNeighbourTwice, Index
  <2> QED BY <1>3, <1>4, <2>2, <2>3 DEF IInv
<1>6. CASE \A n \in neighbours_if : n.nodeid # id
  <2>1. neighbours_if' = neighbours_if \cup {new}
    BY <1>2, <1>6
  <2>2. /\ iface \in interfaces /\ dump[iface].up /\ dump[iface].mesh
        /\ \A n \in neighbours : n.iface \in interfaces /\ n.iface # iface
        /\ \A n \in neighbours_if : n.iface = iface
    BY <1>1 DEF IInv, TodoInv, MeshInv, NoDanglingInterface, Asking
  <2>3. new.nodeid = id /\ new.iface = iface
    OBVIOUS
  <2>4. iface \in 1..MaxEntries
    <3>1. iface \in DOMAIN dump /\ DOMAIN dump = 1..Len(dump)
          /\ Len(dump) \in Nat /\ Len(dump) <= MaxEntries
      BY <2>2 DEF IInv, TypeOK
    <3> QED BY <3>1, NeighboursAssumption
  <2>5. new \in Neighbour
    BY <2>4 DEF Neighbour, IInv, TypeOK
  <2>6. TypeOK'
    BY <1>1, <2>1, <2>5 DEF IInv, TypeOK
  <2>7. TodoInv'
    BY <1>1, <2>1, <2>3 DEF IInv, TodoInv
  <2>8. NoDanglingInterface' /\ OnlyMeshNeighbours'
    BY <1>1, <2>1, <2>2, <2>3 DEF IInv, NoDanglingInterface, OnlyMeshNeighbours
  <2>9. \A n \in neighbours \cup neighbours_if :
          ~(n.nodeid = new.nodeid /\ Index(n.iface) = Index(new.iface))
    <3>1. \A n \in neighbours : Index(n.iface) # Index(iface)
      BY <2>2, DifferentDevices DEF IInv
    <3> QED BY <1>6, <2>3, <3>1
  <2>10. NoNeighbourTwice'
    BY <1>1, <2>1, <2>9 DEF IInv, NoNeighbourTwice, Index
  <2> QED BY <1>3, <1>4, <2>6, <2>7, <2>8, <2>10 DEF IInv
<1> QED BY <1>5, <1>6

\* The end of a request keeps the invariant.
LEMMA RequestEndsInv == IInv /\ RequestEnds => IInv'
<1> SUFFICES ASSUME IInv, RequestEnds PROVE IInv'
  OBVIOUS
<1>1. /\ pc = "replies" /\ pc' = "ask"
      /\ \/ UNCHANGED <<err, failures>>
         \/ err' = "request" /\ failures' = failures \cup {iface}
      /\ neighbours' = neighbours \cup neighbours_if
      /\ neighbours_if' = {}
      /\ UNCHANGED <<dump, interfaces, todo, iface, replies>>
  BY DEF RequestEnds
<1>2. (FirstInv /\ MeshInv /\ FirstOnDevice)'
  BY <1>1, InterfacesKept DEF Asking
<1>3. iface \in interfaces
  BY <1>1 DEF IInv, TodoInv
<1>4. TypeOK' /\ EarlyInv' /\ ErrInv'
  BY <1>1, <1>3 DEF IInv, TypeOK, EarlyInv, ErrInv
<1>5. TodoInv'
  BY <1>1 DEF IInv, TodoInv
<1>6. (NoDanglingInterface /\ OnlyMeshNeighbours /\ NoNeighbourTwice)'
  BY <1>1 DEF IInv, NoDanglingInterface, OnlyMeshNeighbours, NoNeighbourTwice, Index
<1> QED BY <1>2, <1>4, <1>5, <1>6 DEF IInv

\* When everybody was asked, and when main cleans up, the invariant stays.
LEMMA EndInv == IInv /\ (AllAsked \/ CleanUp) => IInv'
<1> SUFFICES ASSUME IInv, AllAsked \/ CleanUp PROVE IInv'
  OBVIOUS
<1>1. CASE AllAsked /\ pc' = "walk"
  <2>1. /\ pc = "ask" /\ pc' = "walk" /\ err = "none"
        /\ UNCHANGED <<dump, interfaces, todo, iface, neighbours_if, neighbours,
                       replies, err, failures>>
    BY <1>1 DEF AllAsked
  <2>2. (FirstInv /\ MeshInv /\ FirstOnDevice)'
    BY <2>1, InterfacesKept DEF Asking
  <2>3. TypeOK' /\ EarlyInv' /\ ErrInv' /\ TodoInv'
    BY <2>1 DEF IInv, TypeOK, EarlyInv, ErrInv, TodoInv
  <2>4. (NoDanglingInterface /\ OnlyMeshNeighbours /\ NoNeighbourTwice)'
    BY <2>1 DEF IInv, NoDanglingInterface, OnlyMeshNeighbours, NoNeighbourTwice, Index
  <2> QED BY <2>2, <2>3, <2>4 DEF IInv
<1>2. CASE CleanUp \/ (AllAsked /\ pc' = "failed")
  <2>1. /\ pc \in {"ask", "walk", "failed"}
        /\ pc' \in {"failed", "done"}
        /\ pc' = "failed" => err # "none"
        /\ interfaces' = {} /\ neighbours' \subseteq neighbours
        /\ UNCHANGED <<dump, todo, iface, neighbours_if, replies, err, failures>>
    BY <1>2 DEF AllAsked, CleanUp
  <2>2. TypeOK' /\ EarlyInv' /\ ErrInv' /\ TodoInv'
    BY <2>1 DEF IInv, TypeOK, EarlyInv, ErrInv, TodoInv
  <2>3. (FirstInv /\ MeshInv /\ FirstOnDevice)'
    BY <2>1 DEF FirstInv, MeshInv, FirstOnDevice, Asking
  <2>4. (NoDanglingInterface /\ OnlyMeshNeighbours /\ NoNeighbourTwice)'
    BY <2>1 DEF IInv, NoDanglingInterface, OnlyMeshNeighbours, NoNeighbourTwice, Index
  <2> QED BY <2>2, <2>3, <2>4 DEF IInv
<1> QED BY <1>1, <1>2 DEF AllAsked

-------------------------------------------------------------------------------
\* IInv is an invariant.
THEOREM InvariantHolds == Spec => []IInv
<1>1. IInv /\ [Next]_vars => IInv'
  <2> SUFFICES ASSUME IInv, [Next]_vars PROVE IInv'
    OBVIOUS
  <2>1. CASE Next
    BY <2>1, GiveUpInv, EntryInv, KeepMeshInv, AskInv, ReplyInv, RequestEndsInv,
       EndInv DEF Next, GetInterfaces, GetNeighbours
  <2>2. CASE UNCHANGED vars
    BY <2>2 DEF vars, IInv, TypeOK, EarlyInv, FirstInv, MeshInv, TodoInv, ErrInv,
                Asking, NoDanglingInterface, OnlyMeshNeighbours, NoNeighbourTwice,
                FirstOnDevice, First, Index
  <2> QED BY <2>1, <2>2
<1> QED BY InitInv, <1>1, PTL DEF Spec

\* Every variable has its type, and a failure comes with an error.
THEOREM TypeCorrect == Spec => []TypeOK
<1>1. IInv => TypeOK
  BY DEF IInv
<1> QED BY <1>1, InvariantHolds, PTL

\* The interfaces that neighbours refer to exist as long as they are used.
THEOREM NoDanglingInterfaceHolds == Spec => []NoDanglingInterface
<1>1. IInv => NoDanglingInterface
  BY DEF IInv
<1> QED BY <1>1, InvariantHolds, PTL

\* Neighbours are found through mesh interfaces that are up, and no others.
THEOREM OnlyMeshNeighboursHolds == Spec => []OnlyMeshNeighbours
<1>1. IInv => OnlyMeshNeighbours
  BY DEF IInv
<1> QED BY <1>1, InvariantHolds, PTL

\* No neighbour is in the list twice for the same link.
THEOREM NoNeighbourTwiceHolds == Spec => []NoNeighbourTwice
<1>1. IInv => NoNeighbourTwice
  BY DEF IInv
<1> QED BY <1>1, InvariantHolds, PTL

\* No request failed when main walks the neighbours.
THEOREM WalkMeansNoFailureHolds == Spec => []WalkMeansNoFailure
<1>1. IInv => WalkMeansNoFailure
  BY DEF IInv, ErrInv, WalkMeansNoFailure
<1> QED BY <1>1, InvariantHolds, PTL

\* The list holds the mesh interfaces that come first on their device.
THEOREM FirstOnDeviceHolds == Spec => []FirstOnDevice
<1>1. IInv => FirstOnDevice
  BY DEF IInv
<1> QED BY <1>1, InvariantHolds, PTL
===============================================================================
