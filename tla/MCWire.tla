-------------------------------- MODULE MCWire --------------------------------
(***************************************************************************)
(* This build against itself, the first protocol, the next one, and one    *)
(* whose number is this build's again once it is narrowed.                 *)
(***************************************************************************)
EXTENDS PrompterWire

Option(title, pin, n, batch, id, deadline, alt, iface) ==
    [title |-> title, pinLabel |-> pin, minLength |-> n, artifacts |-> batch, attempt |-> n,
     promptId |-> id, deadlineMs |-> deadline, altDeadlineMs |-> alt, iface |-> iface]

MCOptions == { Option("", "", 0, << >>, "", 0, 0, "unknown"),
               Option("", "p", 1, << >>, "id", 3, 0, "unknown"),
               Option("t", "p", 1, <<"a">>, "id", 3, 2, "contact") }
=============================================================================
