------------------------------ MODULE MCSerWin ------------------------------
(* A request may arrive in two pieces. *)
EXTENDS SerWin

MCRequests == { <<"get", "rest">> }

=============================================================================
