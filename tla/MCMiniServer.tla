----------------------------- MODULE MCMiniServer -----------------------------
(***************************************************************************)
(* MiniServer with every fault: two lives of the SDK and three connections *)
(* let one wait, one be served and one be refused while the server stops.  *)
(***************************************************************************)
EXTENDS MiniServer
=============================================================================
