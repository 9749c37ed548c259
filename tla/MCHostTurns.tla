---------------------------- MODULE MCHostTurns ----------------------------
(* A small instance of HostTurns. *)
EXTENDS HostTurns

CONSTANTS phone, tablet

OnlyPhone == {{phone}}
=============================================================================
