------------------------------ MODULE MCBuild -------------------------------
(* Build itself, whose constants are all given by the configuration. *)
EXTENDS Build
=============================================================================
