------------------------------ MODULE ReadySet ------------------------------
(***************************************************************************)
(* What a poller promises its user, the loop of server.c: it keeps a set   *)
(* of sockets, each with the events and the data it was last given; a wait *)
(* that reports an event makes a set of registered sockets ready; every    *)
(* ready socket is then handed out once, with its own data, and sockets    *)
(* may be added and the current one removed while the others wait their    *)
(* turn.  A poller with a limit stops the program when one socket too many *)
(* is added; one without a limit never does.                               *)
(***************************************************************************)
EXTENDS Naturals, FiniteSets

CONSTANTS
  Socket,
  Events,      \* what a user can ask to be told about
  Conditions,  \* what is reported without having been asked for
  Data,
  None

Info  == [events : SUBSET Events, data : Data]
Ready == (SUBSET (Events \cup Conditions)) \ {{}}

VARIABLES
  limit,       \* the most sockets it may hold, 0 for no limit
  registered,  \* socket |-> its events and data
  pending,     \* ready socket, not handed out yet |-> what it is ready for
  message,     \* what net_poller_next handed out last, None when it is dealt with
  status       \* "running", "limit" (exit at the limit) or "freed"

vars == <<limit, registered, pending, message, status>>

Without(f, s) == [t \in DOMAIN f \ {s} |-> f[t]]

Init ==
  /\ limit \in Nat
  /\ \E S \in SUBSET Socket :
       registered \in [S -> Info] /\ (limit # 0 => Cardinality(S) <= limit)
  /\ pending = <<>>
  /\ message = None
  /\ status = "running"

Add(s, info) ==
  /\ s \notin DOMAIN registered
  /\ \/ /\ limit = 0 \/ Cardinality(DOMAIN registered) < limit
        /\ registered' = [t \in DOMAIN registered \cup {s} |->
                            IF t = s THEN info ELSE registered[t]]
        /\ UNCHANGED status
     \/ /\ limit # 0 /\ Cardinality(DOMAIN registered) = limit
        /\ status' = "limit"
        /\ UNCHANGED registered
  /\ UNCHANGED <<limit, pending, message>>

RemoveThis ==
  /\ message # None
  /\ registered' = Without(registered, message.socket)
  /\ message' = None
  /\ UNCHANGED <<limit, pending, status>>

ModifyThis(info) ==
  /\ message # None
  /\ registered' = [registered EXCEPT ![message.socket] = info]
  /\ UNCHANGED <<limit, pending, message, status>>

Event ==
  /\ pending = <<>>
  /\ \E S \in SUBSET DOMAIN registered : S # {} /\ pending' \in [S -> Ready]
  /\ message' = None
  /\ UNCHANGED <<limit, registered, status>>

Next ==
  /\ IF pending = <<>>
     THEN message' = None /\ UNCHANGED pending
     ELSE \E s \in DOMAIN pending :
            /\ message' = [socket |-> s, events |-> pending[s], data |-> registered[s].data]
            /\ pending' = Without(pending, s)
  /\ UNCHANGED <<limit, registered, status>>

Free ==
  /\ status' = "freed"
  /\ UNCHANGED <<limit, registered, pending, message>>

Step ==
  /\ status = "running"
  /\ \/ \E s \in Socket, info \in Info : Add(s, info)
     \/ RemoveThis
     \/ \E info \in Info : ModifyThis(info)
     \/ Event
     \/ Next
     \/ Free

Spec == Init /\ [][Step]_vars

=============================================================================
