------------------------------ MODULE MCPresence ------------------------------
(***************************************************************************)
(* One port, four ObjectIds: a reader whose card is changed twice, or a    *)
(* reader with a card that is unplugged and plugged in again.              *)
(***************************************************************************)
EXTENDS Presence
=============================================================================
