---------------------------- MODULE MeshNeighbours ----------------------------
(***************************************************************************)
(* How the autoupdater finds its mesh neighbours: src/libmeshneighbour and *)
(* src/libmeshutil, and the use main() of autoupdater.c makes of them.     *)
(* Netifd (through ubus) lists the interfaces of the node; every mesh      *)
(* interface that is up is asked with respondd_request for neighbours,     *)
(* which are collected in a list.                                          *)
(*                                                                         *)
(* An interface object is named by the position of its entry in netifd's   *)
(* answer, a neighbour object by its interface and the number of the reply *)
(* it was made for.  As list_add and list_splice add at the head, the list *)
(* of interfaces is in falling order of their positions, and a set stands  *)
(* for it.  A reply is what mesh_respondd_cb takes from a packet; packets  *)
(* it cannot parse are dropped and not modelled.                           *)
(***************************************************************************)
EXTENDS Integers, Sequences

CONSTANTS
  Entries,      \* what netifd may say of an interface, see Entry
  Devices,      \* names of network devices
  IfIndex,      \* index of each device; 0 when the kernel does not know it
  NodeIds,      \* of the neighbours
  MaxEntries,   \* BOUND: interfaces in one answer
  MaxReplies,   \* BOUND: replies on one interface
  Null

\* A well-formed entry may lack the device; mesh says whether proto is one of
\* gluonutil_mesh_protocols.
Entry == [valid : BOOLEAN, device : Devices \cup {Null}, up : BOOLEAN, mesh : BOOLEAN]

ASSUME NeighboursAssumption ==
  /\ Entries \subseteq Entry
  /\ IfIndex \in [Devices -> Nat]
  /\ MaxEntries \in Nat
  /\ MaxReplies \in Nat
  /\ Null \notin Devices

VARIABLES
  pc,             \* "start", "parse", "ask", "replies", "walk", "failed", "done"
  dump,           \* the entries of netifd's answer read so far
  interfaces,     \* the list of interfaces: exactly those not freed
  todo,           \* the interfaces still to ask
  iface,          \* the interface being asked
  neighbours_if,  \* the neighbours found on it
  neighbours,     \* the list of neighbours
  replies,        \* replies on this interface
  err,            \* the variable of that name in the running function
  failures        \* history: the interfaces whose request failed

vars == <<pc, dump, interfaces, todo, iface, neighbours_if, neighbours,
          replies, err, failures>>

Init ==
  /\ pc = "start"
  /\ dump = <<>>
  /\ interfaces = {}
  /\ todo = {}
  /\ iface = Null
  /\ neighbours_if = {}
  /\ neighbours = {}
  /\ replies = 0
  /\ err = "none"
  /\ failures = {}

\* The fields of interface object i; device is known for all that are made.
Index(i) == IfIndex[dump[i].device]

-------------------------------------------------------------------------------
(* gluonutil_get_mesh_interfaces                                           *)

\* Mutant: a failure is not reported.
DumpFailsSilently ==
  /\ pc = "start"
  /\ pc' = "failed"
  /\ UNCHANGED <<dump, interfaces, todo, iface, neighbours_if, neighbours, replies,
                 err, failures>>

\* No ubus, no netifd, no answer, or one that is no list of interfaces.
DumpFails ==
  /\ pc = "start"
  /\ pc' = "failed"
  /\ err' \in {"ECONNREFUSED", "EINVAL", "ENOENT"}
  /\ UNCHANGED <<dump, interfaces, todo, iface, neighbours_if, neighbours, replies,
                 failures>>

DumpArrives ==
  /\ pc = "start"
  /\ pc' = "parse"
  /\ UNCHANGED <<dump, interfaces, todo, iface, neighbours_if, neighbours, replies,
                 err, failures>>

Read(e) == /\ pc = "parse"
           /\ Len(dump) < MaxEntries
           /\ e \in Entries
           /\ dump' = Append(dump, e)

\* A malformed entry: all interfaces are freed.
BadEntry ==
  /\ \E e \in Entries : Read(e) /\ ~e.valid
  /\ pc' = "failed"
  /\ err' = "EINVAL"
  /\ interfaces' = {}
  /\ UNCHANGED <<todo, iface, neighbours_if, neighbours, replies, failures>>

\* There is no memory for an interface: all are freed, but the error is that
\* of the entry before, so there may be none.
NoMemory ==
  /\ pc = "parse"
  /\ Len(dump) < MaxEntries
  /\ pc' = IF err = "none" THEN "ask" ELSE "failed"
  /\ interfaces' = {}
  /\ UNCHANGED <<dump, todo, iface, neighbours_if, neighbours, replies, err, failures>>

\* An entry without device is skipped.
SkipEntry ==
  /\ \E e \in Entries : Read(e) /\ e.valid /\ e.device = Null
  /\ err' = "ENOENT"
  /\ UNCHANGED <<pc, interfaces, todo, iface, neighbours_if, neighbours, replies,
                 failures>>

\* Mutant: other interfaces on the same device are not looked for.
KnownNever(device) == FALSE

\* find_interface_ifindex
Known(device) == \E i \in interfaces : Index(i) = IfIndex[device]

\* An interface is added, unless one in the list is on the same device.
AddEntry ==
  /\ \E e \in Entries :
       /\ Read(e)
       /\ e.valid
       /\ e.device # Null
       /\ interfaces' = IF Known(e.device) THEN interfaces
                                           ELSE interfaces \cup {Len(dump) + 1}
  /\ err' = "none"
  /\ UNCHANGED <<pc, todo, iface, neighbours_if, neighbours, replies, failures>>

\* ubus_invoke reports a failure although there was an answer.
InvokeFails ==
  /\ pc = "parse"
  /\ pc' = "failed"
  /\ err' = "EINVAL"
  /\ UNCHANGED <<dump, interfaces, todo, iface, neighbours_if, neighbours, replies,
                 failures>>

\* Mutant: interfaces of other protocols stay.
KeepAll ==
  /\ pc = "parse"
  /\ pc' = "ask"
  /\ err' = "none"
  /\ todo' = interfaces
  /\ UNCHANGED <<dump, interfaces, iface, neighbours_if, neighbours, replies, failures>>

\* The whole answer was read: interfaces of other protocols are freed.
KeepMesh ==
  /\ pc = "parse"
  /\ pc' = "ask"
  /\ err' = "none"
  /\ interfaces' = {i \in interfaces : dump[i].mesh}
  /\ todo' = interfaces'
  /\ UNCHANGED <<dump, iface, neighbours_if, neighbours, replies, failures>>

-------------------------------------------------------------------------------
(* mesh_get_neighbours_respondd                                            *)

\* Interface i is the next in the list.
NextInterface(i) == i \in todo /\ \A j \in todo : j <= i

SkipDown ==
  /\ pc = "ask"
  /\ \E i \in todo : NextInterface(i) /\ ~dump[i].up /\ todo' = todo \ {i}
  /\ UNCHANGED <<pc, dump, interfaces, iface, neighbours_if, neighbours, replies, err,
                 failures>>

\* Mutant: interfaces that are down are asked, too.
AskAny ==
  /\ pc = "ask"
  /\ pc' = "replies"
  /\ \E i \in todo : NextInterface(i) /\ iface' = i /\ todo' = todo \ {i}
  /\ replies' = 0
  /\ UNCHANGED <<dump, interfaces, neighbours_if, neighbours, err, failures>>

\* Call respondd_request for the next interface.
Ask ==
  /\ pc = "ask"
  /\ pc' = "replies"
  /\ \E i \in todo :
       NextInterface(i) /\ dump[i].up /\ iface' = i /\ todo' = todo \ {i}
  /\ replies' = 0
  /\ UNCHANGED <<dump, interfaces, neighbours_if, neighbours, err, failures>>

\* mesh_respondd_cb: a node that is new on this interface is added.
Reply ==
  /\ pc = "replies"
  /\ replies < MaxReplies
  /\ replies' = replies + 1
  /\ \E id \in NodeIds :
       neighbours_if' =
         IF \E n \in neighbours_if : n.nodeid = id
         THEN neighbours_if
         ELSE neighbours_if \cup {[nodeid |-> id, iface |-> iface, nr |-> replies]}
  /\ UNCHANGED <<pc, dump, interfaces, todo, iface, neighbours, err, failures>>

\* Mutant: the result of the last request is the result.
RequestEndsForgetful ==
  /\ pc = "replies"
  /\ pc' = "ask"
  /\ err' \in {"none", "request"}
  /\ failures' = IF err' = "request" THEN failures \cup {iface} ELSE failures
  /\ neighbours' = neighbours \cup neighbours_if
  /\ neighbours_if' = {}
  /\ UNCHANGED <<dump, interfaces, todo, iface, replies>>

\* respondd_request returns; list_splice.  An error is remembered, the other
\* interfaces are asked all the same.
RequestEnds ==
  /\ pc = "replies"
  /\ pc' = "ask"
  /\ \/ UNCHANGED <<err, failures>>
     \/ err' = "request" /\ failures' = failures \cup {iface}
  /\ neighbours' = neighbours \cup neighbours_if
  /\ neighbours_if' = {}
  /\ UNCHANGED <<dump, interfaces, todo, iface, replies>>

\* Mutant: the interfaces are freed whether there was an error or not.
AllAskedFrees ==
  /\ pc = "ask"
  /\ todo = {}
  /\ pc' = IF err = "none" THEN "walk" ELSE "failed"
  /\ interfaces' = {}
  /\ UNCHANGED <<dump, todo, iface, neighbours_if, neighbours, replies, err, failures>>

\* Everybody was asked.  After an error the interfaces are freed, while the
\* neighbours that refer to them stay in the list.
AllAsked ==
  /\ pc = "ask"
  /\ todo = {}
  /\ \/ err = "none" /\ pc' = "walk" /\ UNCHANGED interfaces
     \/ err # "none" /\ pc' = "failed" /\ interfaces' = {}
  /\ UNCHANGED <<dump, todo, iface, neighbours_if, neighbours, replies, err, failures>>

-------------------------------------------------------------------------------
(* main                                                                    *)

\* mesh_free_respondd_neighbours_ctx, once the neighbours were tried, or at
\* once when there was an error.
CleanUp ==
  /\ pc \in {"walk", "failed"}
  /\ pc' = "done"
  /\ interfaces' = {}
  /\ neighbours' = {}
  /\ UNCHANGED <<dump, todo, iface, neighbours_if, replies, err, failures>>

GetInterfaces == \/ DumpFails \/ DumpArrives
                 \/ BadEntry \/ NoMemory \/ SkipEntry \/ AddEntry
                 \/ InvokeFails \/ KeepMesh

GetNeighbours == SkipDown \/ Ask \/ Reply \/ RequestEnds \/ AllAsked

Next == GetInterfaces \/ GetNeighbours \/ CleanUp

Spec == Init /\ [][Next]_vars

-------------------------------------------------------------------------------
(* Properties                                                              *)

Neighbour == [nodeid : NodeIds, iface : 1..MaxEntries, nr : Nat]

\* Every variable has its type, and main is told of a failure by an error.
TypeOK ==
  /\ pc \in {"start", "parse", "ask", "replies", "walk", "failed", "done"}
  /\ dump \in Seq(Entries)
  /\ Len(dump) <= MaxEntries
  /\ interfaces \subseteq DOMAIN dump
  /\ todo \subseteq DOMAIN dump
  /\ iface \in DOMAIN dump \cup {Null}
  /\ neighbours_if \subseteq Neighbour
  /\ neighbours \subseteq Neighbour
  /\ replies \in Nat
  /\ err \in {"none", "ECONNREFUSED", "EINVAL", "ENOENT", "request"}
  /\ failures \subseteq DOMAIN dump
  /\ pc = "failed" => err # "none"

\* While requests run, and while main walks the neighbours and connects to them
\* through neigh->iface->device, the interfaces they were found on exist.
NoDanglingInterface ==
  /\ pc = "replies" => iface \in interfaces
  /\ pc \in {"ask", "replies", "walk"} =>
       \A n \in neighbours \cup neighbours_if : n.iface \in interfaces

\* Neighbours are only looked for, and firmware is only downloaded, through
\* mesh interfaces that are up: never through the WAN or client network.
OnlyMeshNeighbours ==
  \A n \in neighbours \cup neighbours_if : dump[n.iface].mesh /\ dump[n.iface].up

\* No neighbour is in the list twice for the same link, although netifd may
\* have several interfaces on one device and a node may reply several times.
NoNeighbourTwice ==
  \A m, n \in neighbours \cup neighbours_if :
    m.nodeid = n.nodeid /\ Index(m.iface) = Index(n.iface) => m = n

\* main tries neighbours only when no request failed, whichever it was.
WalkMeansNoFailure == pc = "walk" => failures = {}

\* Entry i comes first in netifd's answer among those on its device.
First(i) == /\ dump[i].device # Null
            /\ \A j \in 1..(i - 1) : dump[j].device # Null => Index(j) # Index(i)

\* The interfaces in the list are the mesh interfaces that come first in
\* netifd's answer among those on their device; all of them unless there was
\* no memory, and then none.
FirstOnDevice ==
  pc \in {"ask", "replies", "walk"} =>
    \/ interfaces = {}
    \/ interfaces = {i \in DOMAIN dump : First(i) /\ dump[i].mesh}

\* "Fills supplied list with all known mesh interfaces": the device of every
\* mesh interface is in the list when there is one in it at all.
AllMeshInterfaces ==
  pc \in {"ask", "replies", "walk"} /\ interfaces # {} =>
    \A i \in DOMAIN dump :
      dump[i].device # Null /\ dump[i].mesh =>
        \E j \in interfaces : Index(j) = Index(i)
===============================================================================
