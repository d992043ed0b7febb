---------------------------- MODULE MCHttpTransfer ----------------------------
(* A small instance of HttpTransfer for TLC.                               *)
EXTENDS HttpTransfer

\* The manifest is asked for with -1, an image with its size.
MCLengths == {-1, 0, 2}
===============================================================================
