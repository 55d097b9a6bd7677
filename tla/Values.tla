------------------------------- MODULE Values -------------------------------
(***************************************************************************)
(* The value that requests, configurations and records share.              *)
(***************************************************************************)
CONSTANT None  \* what is left out, or null in JSON
=============================================================================
