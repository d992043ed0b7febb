-------------------------------- MODULE MCProxy --------------------------------
(* A small instance of Proxy for TLC.                                      *)
EXTENDS Proxy
===============================================================================
