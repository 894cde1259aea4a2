----------------------------- MODULE MCDaemonRPC -----------------------------
(***************************************************************************)
(* Two requests at once, and two daemons, the first of which may stop to   *)
(* answer.                                                                 *)
(***************************************************************************)
EXTENDS DaemonRPC
=============================================================================
