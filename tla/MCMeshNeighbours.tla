--------------------------- MODULE MCMeshNeighbours ---------------------------
(* Small instances of MeshNeighbours for TLC.                              *)
EXTENDS MeshNeighbours, TLC

CONSTANTS lan, wan, gone   \* the kernel does not know the last one

MCIfIndex == (lan :> 1) @@ (wan :> 2) @@ (gone :> 0)

On(device, up, mesh) == [valid |-> TRUE, device |-> device, up |-> up, mesh |-> mesh]

\* On each device a mesh interface and another one; one that is down, one
\* without device, and one that is malformed.
MCEntries ==
  {On(d, TRUE, m) : d \in {lan, wan, gone}, m \in BOOLEAN}
    \cup {On(lan, FALSE, TRUE), On(Null, TRUE, TRUE),
          [On(Null, FALSE, FALSE) EXCEPT !.valid = FALSE]}

\* Two interfaces on one device, as with a gluon_wired interface on the WAN.
SharedEntries == {On(wan, TRUE, m) : m \in BOOLEAN} \cup {On(lan, TRUE, TRUE)}
===============================================================================
