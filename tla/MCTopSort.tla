----------------------------- MODULE MCTopSort -----------------------------
(***************************************************************************)
(* TopSort over every graph of imports among three files, any of which may *)
(* be missing.                                                             *)
(***************************************************************************)
EXTENDS TopSort

CONSTANTS f1, f2, f3
=============================================================================
