--------------------------- MODULE MCRespondRequest ---------------------------
(* A small instance of RespondRequest for TLC.                             *)
EXTENDS RespondRequest

\* The callback goes on, cancels, or reports an error.
MCResults == {OK, CANCEL, 2}

\* What mesh_respondd_cb returns.
OnlyOk == {OK}
===============================================================================
