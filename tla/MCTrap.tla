------------------------------- MODULE MCTrap -------------------------------
(* One hart with M, S and U modes; a machine timer and a supervisor external *)
(* interrupt from outside, a supervisor software interrupt from inside.      *)
EXTENDS Trap
=============================================================================
