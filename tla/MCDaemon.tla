------------------------------ MODULE MCDaemon -------------------------------
(***************************************************************************)
(* One client; a sleep that is asked about and announced twice; power-off. *)
(***************************************************************************)
EXTENDS AgentDaemon

CONSTANT c1
=============================================================================
