------------------------------- MODULE MCServe -------------------------------
(***************************************************************************)
(* Two gateways, the second perhaps the first's successor, and one task    *)
(* create, on one key file that is absent, torn or whole at the start.     *)
(***************************************************************************)
EXTENDS Serve
==============================================================================
