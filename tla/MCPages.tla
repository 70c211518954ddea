------------------------------ MODULE MCPages -------------------------------
(* Three runs of vids.c, with more and with less in each array, so that a  *)
(* part of one table fits in the place of another's.                       *)
EXTENDS Pages

MCTables == << <<1, 2, 1, 2>>, <<2, 3, 0, 1>>, <<1, 2, 2, 1>> >>

=============================================================================
