------------------------------ MODULE MCPrompter ------------------------------
(***************************************************************************)
(* Three shapes of request: a secret with an id and no deadline, a secret  *)
(* with a deadline and no id, and a confirmation.                          *)
(***************************************************************************)
EXTENDS Prompter

MCShapes == {[kind |-> "secret", addressed |-> TRUE, timed |-> FALSE],
             [kind |-> "secret", addressed |-> FALSE, timed |-> TRUE],
             [kind |-> "confirm", addressed |-> FALSE, timed |-> FALSE]}
=============================================================================
