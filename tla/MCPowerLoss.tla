---------------------------- MODULE MCPowerLoss ----------------------------
(***************************************************************************)
(* PowerLoss for TLC: one session that writes one field.                   *)
(***************************************************************************)
EXTENDS PowerLoss

CONSTANTS s1, c1, c2, t1

MCUserOf == [s \in Session |-> 0]

MCOneField == {<< <<"f", 0>> >>}

=============================================================================
