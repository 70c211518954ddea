------------------------------ MODULE MCSerLin ------------------------------
(* A request may arrive in two pieces, the second of which is an unknown   *)
(* method when it is read alone; or every request arrives whole.           *)
EXTENDS SerLin

MCRequests == { <<"get", "rest">> }

MCWholeRequests == { <<"get">> }

=============================================================================
