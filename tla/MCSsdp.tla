-------------------------------- MODULE MCSsdp --------------------------------
(* A small instance of Ssdp for TLC: two threads, two handles, both families. *)
EXTENDS Ssdp

CONSTANTS t1, t2
===============================================================================
