--------------------------- MODULE MCActionServer ---------------------------
(* Three jobs, of which the first two announce their start.                *)
EXTENDS ActionServer

FirstTwo == {1, 2}
=============================================================================
