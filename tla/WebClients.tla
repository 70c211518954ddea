----------------------------- MODULE WebClients -----------------------------
(***************************************************************************)
(* What the web servers of ser_lin.c, ser_win.c and server.c are connected *)
(* to: the clients, which connect, send requests in pieces, close and      *)
(* crash, and the kernel's queues between them and the server.             *)
(*                                                                         *)
(* A descriptor is named after the client at its other end.  A request is  *)
(* cut into units: "get" is a piece that starts with `GET`, "rest" is any  *)
(* other piece.                                                            *)
(***************************************************************************)
EXTENDS Naturals, Sequences

CONSTANTS
  Client,
  Listener,        \* the descriptor of the listening socket
  Requests,        \* what clients send, as sequences of units
  Silent,          \* bound of the model: clients that connect and then do nothing
  Abrupt,          \* bound of the model: clients that may crash
  MaxConnects,     \* bound of the model: connections in all
  MaxRequests      \* bound of the model: requests in all

Unit == {"get", "rest"}
Fd   == Client \cup {Listener}

ASSUME WebClientsAssumption ==
  /\ Listener \notin Client /\ Silent \subseteq Client /\ Abrupt \subseteq Client
  /\ MaxConnects \in Nat /\ MaxRequests \in Nat
  /\ Requests \subseteq Seq(Unit) \ {<<>>}

VARIABLES
  status,          \* "running", "closed" (by a signal), "failed" (exit) or "undefined"
  \* the kernel
  backlog,         \* clients connected and not accepted yet
  open,            \* descriptors the server has and has not closed
  inbox,           \* client |-> units sent and not read
  eof,             \* client |-> it has closed its end
  reset,           \* client |-> the server's kernel got a reset from it
  \* the clients
  todo,            \* client |-> units of its request still to be sent
  waiting,         \* client |-> it began a request and has no reply to it
  connects,        \* connections made so far
  requests         \* requests made so far

sockets == <<backlog, open, inbox, eof, reset>>
clients == <<todo, waiting, connects, requests>>

ClientsInit ==
  /\ status = "running"
  /\ backlog = <<>>
  /\ open = {}
  /\ inbox = [c \in Client |-> <<>>]
  /\ eof = [c \in Client |-> FALSE]
  /\ reset = [c \in Client |-> FALSE]
  /\ todo = [c \in Client |-> <<>>]
  /\ waiting = [c \in Client |-> FALSE]
  /\ connects = 0
  /\ requests = 0

ClientsTypeOK ==
  /\ status \in {"running", "closed", "failed", "undefined"}
  /\ backlog \in Seq(Client)
  /\ open \subseteq Fd
  /\ inbox \in [Client -> Seq(Unit)]
  /\ eof \in [Client -> BOOLEAN]
  /\ reset \in [Client -> BOOLEAN]
  /\ todo \in [Client -> Seq(Unit)]
  /\ waiting \in [Client -> BOOLEAN]
  /\ connects \in 0..MaxConnects
  /\ requests \in 0..MaxRequests

Queued(c) == \E k \in 1..Len(backlog) : backlog[k] = c

Readable(fd) ==
  IF fd = Listener THEN backlog # <<>> ELSE inbox[fd] # <<>> \/ eof[fd] \/ reset[fd]

(* The server closed the descriptors fds, after which their clients can    *)
(* only connect again.                                                     *)
Disconnected(fds) ==
  /\ open' = open \ fds
  /\ inbox' = [c \in Client |-> IF c \in fds THEN <<>> ELSE inbox[c]]
  /\ eof' = [c \in Client |-> c \notin fds /\ eof[c]]
  /\ reset' = [c \in Client |-> c \notin fds /\ reset[c]]
  /\ todo' = [c \in Client |-> IF c \in fds THEN <<>> ELSE todo[c]]
  /\ waiting' = [c \in Client |-> c \notin fds /\ waiting[c]]
  /\ UNCHANGED <<backlog, connects, requests>>

-----------------------------------------------------------------------------
(* The clients' steps, taken while the server runs. *)

Talking(c) ==
  /\ status = "running"
  /\ c \in open \/ Queued(c)
  /\ c \notin Silent /\ ~eof[c] /\ ~reset[c]

Connect(c) ==
  /\ status = "running"
  /\ Listener \in open /\ c \notin open /\ ~Queued(c)
  /\ connects < MaxConnects
  /\ connects' = connects + 1
  /\ backlog' = Append(backlog, c)
  /\ UNCHANGED <<status, open, inbox, eof, reset, todo, waiting, requests>>

(* A request is begun when the last one was sent and replied to. *)
Begin(c) ==
  /\ Talking(c)
  /\ ~waiting[c] /\ todo[c] = <<>>
  /\ requests < MaxRequests
  /\ \E request \in Requests : todo' = [todo EXCEPT ![c] = request]
  /\ waiting' = [waiting EXCEPT ![c] = TRUE]
  /\ requests' = requests + 1
  /\ UNCHANGED <<status, sockets, connects>>

(* A piece of the request reaches the server: the server may see the first *)
(* without the second.                                                     *)
Send(c) ==
  /\ Talking(c)
  /\ todo[c] # <<>>
  /\ inbox' = [inbox EXCEPT ![c] = Append(@, Head(todo[c]))]
  /\ todo' = [todo EXCEPT ![c] = Tail(@)]
  /\ UNCHANGED <<status, backlog, open, eof, reset, waiting, connects, requests>>

Close(c) ==
  /\ Talking(c)
  /\ eof' = [eof EXCEPT ![c] = TRUE]
  /\ UNCHANGED <<status, backlog, open, inbox, reset, clients>>

(* The client crashes, or closes its end with a reply unread. *)
Reset(c) ==
  /\ Talking(c) /\ c \in Abrupt
  /\ reset' = [reset EXCEPT ![c] = TRUE]
  /\ UNCHANGED <<status, backlog, open, inbox, eof, clients>>

Client_step(c) == Connect(c) \/ Begin(c) \/ Send(c) \/ Close(c) \/ Reset(c)

-----------------------------------------------------------------------------
\* Nobody is in the queue twice, and whoever is in it has no descriptor, but
\* for the first when `accepted`.
QueueIsFresh(accepted) ==
  /\ \A j, k \in 1..Len(backlog) : backlog[j] = backlog[k] => j = k
  /\ \A k \in 1..Len(backlog) : backlog[k] \in open => accepted /\ k = 1
  /\ accepted => backlog # <<>>

=============================================================================
