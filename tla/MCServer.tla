------------------------------ MODULE MCServer ------------------------------
(* A request may arrive in two pieces, which together fill the buffer. *)
EXTENDS Server

MCRequests == { <<"get", "rest">> }

=============================================================================
