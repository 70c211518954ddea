------------------------------ MODULE MCPoller ------------------------------
(* A listener and up to two connections; a poller with a limit of 2, and   *)
(* one that is created empty and has none.                                 *)
EXTENDS Poller

CONSTANTS listener, s1, s2, in, hup, d0, d1

MCSocket == {listener, s1, s2}

Listener == << [fd |-> listener, info |-> [events |-> {in}, data |-> d0]] >>

MCCreations ==
  { [sockets |-> Listener, count_limit |-> 2],
    [sockets |-> <<>>,     count_limit |-> NET_POLLER_NOLIMIT] }

(* Created as server.c does it, except for the limit. *)
MCUnlimited == { [sockets |-> Listener, count_limit |-> NET_POLLER_NOLIMIT] }

=============================================================================
