-------------------------------- MODULE MCIxml --------------------------------
(***************************************************************************)
(* Ixml with a document, three elements and a text: enough for a child     *)
(* between two others, a grandchild, and the clone of a small tree.        *)
(***************************************************************************)
EXTENDS Ixml
=============================================================================
