------------------------------- MODULE SerLin -------------------------------
(***************************************************************************)
(* The web server of ser_lin.c: one thread that polls the listener and its *)
(* connections, accepts, reads requests and replies, and then closes the   *)
(* connections it marked and compacts the table; with its clients, the     *)
(* kernel's socket buffers, and SIGINT, which can hit between any two      *)
(* steps.  Sockets of accepted connections are blocking.                   *)
(* A read returns at most Buffer units.  C index k of both tables is the   *)
(* same number here, 0 being the listener's.                               *)
(***************************************************************************)
EXTENDS WebClients, FiniteSets, FiniteSetsExt

CONSTANTS
  MaxConnections,  \* MAX_CONNECTIONS, the elements of both tables
  Buffer,          \* units that fill the buffer of one read
  PollFails        \* whether poll may fail (no memory, a signal but SIGINT)

Slot == 0..MaxConnections - 1

LISTEN_ID == 0

\* What the zeroed table names: descriptor 0.
Stdin == "stdin"

ASSUME SerLinAssumption ==
  /\ MaxConnections \in Nat \ {0} /\ Buffer \in Nat \ {0}
  /\ PollFails \in BOOLEAN

VARIABLES
  pc,              \* where in main the server is
  connections,     \* slot |-> [fd, in]: in is POLLIN of revents
  remove_marks,    \* slot |-> BOOLEAN
  conn_count,
  new_conn_count,
  i,               \* conn_id of the serving loop, i of the compacting loop
  p,               \* where the compacting loop puts the next survivor
  arena            \* what process_request has read

table   == <<connections, remove_marks, conn_count, new_conn_count>>
server  == <<pc, table, i, p, arena>>
vars    == <<server, status, sockets, clients>>

Init ==
  /\ pc = "create"
  /\ connections = [s \in Slot |-> [fd |-> Stdin, in |-> FALSE]]
  /\ remove_marks = [s \in Slot |-> FALSE]
  /\ conn_count = 0
  /\ new_conn_count = 1
  /\ i = 1 /\ p = 1
  /\ arena = <<>>
  /\ ClientsInit

-----------------------------------------------------------------------------
(* The server's steps. *)

At(label) == status = "running" /\ pc = label

(* The socket is created, bound and listens, or the program exits. *)
create_socket ==
  /\ At("create")
  /\ \/ status' = "failed" /\ UNCHANGED <<pc, open>>
     \/ open' = {Listener} /\ pc' = "listening" /\ UNCHANGED status
  /\ UNCHANGED <<table, i, p, arena, backlog, inbox, eof, reset, clients>>

store_listener ==
  /\ At("listening")
  /\ connections' = [connections EXCEPT ![LISTEN_ID].fd = Listener]
  /\ conn_count' = 1
  /\ pc' = "poll"
  /\ UNCHANGED <<status, remove_marks, new_conn_count, i, p, arena, sockets, clients>>

Polled == [ s \in Slot |-> [connections[s] EXCEPT
              !.in = IF s < conn_count THEN Readable(connections[s].fd) ELSE @] ]

\* After poll: whether there is a connection to accept.
Goto_accept(conns) == IF conns[LISTEN_ID].in THEN "accept" ELSE "serve"

poll ==
  /\ At("poll")
  /\ \E s \in 0..conn_count - 1 : Readable(connections[s].fd)
  /\ connections' = Polled
  /\ new_conn_count' = conn_count
  /\ i' = LISTEN_ID + 1
  /\ pc' = Goto_accept(connections')
  /\ UNCHANGED <<status, remove_marks, conn_count, p, arena, sockets, clients>>

(* poll returns -1, which `count < -1` lets pass: the revents are those of *)
(* the last call, or empty.                                                *)
poll_failed ==
  /\ PollFails
  /\ At("poll")
  /\ \/ UNCHANGED connections
     \/ connections' = [s \in Slot |-> [connections[s] EXCEPT !.in = FALSE]]
  /\ new_conn_count' = conn_count
  /\ i' = LISTEN_ID + 1
  /\ pc' = Goto_accept(connections')
  /\ UNCHANGED <<status, remove_marks, conn_count, p, arena, sockets, clients>>

(* The listener does not block; without a connection accept fails. *)
accept_connection ==
  /\ At("accept")
  /\ \/ /\ backlog = <<>>
        /\ status' = "failed"
        /\ UNCHANGED <<pc, backlog, open>>
     \/ /\ backlog # <<>>
        /\ pc' = "store"
        /\ open' = open \cup {Head(backlog)}
        /\ UNCHANGED <<status, backlog>>  \* its head is left for the next step to name
  /\ UNCHANGED <<table, i, p, arena, inbox, eof, reset, clients>>

(* Nothing compares conn_count with MAX_CONNECTIONS. *)
store_connection ==
  /\ At("store")
  /\ backlog' = Tail(backlog)
  /\ pc' = "serve"
  /\ \/ /\ conn_count = MaxConnections
        /\ status' = "undefined"
        /\ UNCHANGED table
     \/ /\ conn_count < MaxConnections
        /\ connections' = [connections EXCEPT ![conn_count] = [fd |-> Head(backlog), in |-> FALSE]]
        /\ remove_marks' = [remove_marks EXCEPT ![conn_count] = FALSE]
        /\ new_conn_count' = new_conn_count + 1
        /\ UNCHANGED <<status, conn_count>>
  /\ UNCHANGED <<i, p, arena, open, inbox, eof, reset, clients>>

Served_short == 1..conn_count - 2  \* mutant: the last connection is left out

Served == 1..conn_count - 1

Reported == {s \in Served : s >= i /\ connections[s].in}

\* Where the compacting loop puts the first survivor.
First_place_listener == LISTEN_ID  \* mutant: the listener's slot is not left alone

First_place == LISTEN_ID + 1

(* The loop over the connections of before the accept: on to the next one  *)
(* that poll reported, or to the compaction.                               *)
serve ==
  /\ At("serve")
  /\ \/ /\ Reported # {}
        /\ i' = Min(Reported)
        /\ arena' = <<>>
        /\ pc' = "read"
        /\ UNCHANGED p
     \/ /\ Reported = {}
        /\ i' = 1 /\ p' = First_place
        /\ pc' = "compact"
        /\ UNCHANGED arena
  /\ UNCHANGED <<status, table, sockets, clients>>

fd == connections[i].fd

Marked(mark) == /\ remove_marks' = [remove_marks EXCEPT ![i] = mark]
                /\ i' = i + 1
                /\ pc' = "serve"
                /\ UNCHANGED <<connections, conn_count, new_conn_count>>

(* One read of process_request.  It blocks on a socket with nothing to     *)
(* read, takes what there is up to the buffer's length, and is repeated    *)
(* when it filled the buffer.                                              *)
Taken == SubSeq(inbox[fd], 1, Min({Buffer, Len(inbox[fd])}))

read_failed ==
  /\ At("read")
  /\ inbox[fd] = <<>> /\ reset[fd]
  /\ status' = "failed"
  /\ UNCHANGED <<pc, table, i, p, arena, sockets, clients>>

read ==
  /\ At("read")
  /\ inbox[fd] # <<>> \/ (eof[fd] /\ ~reset[fd])
  /\ inbox' = [inbox EXCEPT ![fd] = SubSeq(@, Len(Taken) + 1, Len(@))]
  /\ \/ /\ arena = <<>> /\ Taken = <<>>  \* the client has closed its end
        /\ Marked(TRUE)
        /\ UNCHANGED arena
     \/ /\ arena # <<>> \/ Taken # <<>>
        /\ arena' = arena \o Taken
        /\ pc' = IF Len(Taken) < Buffer THEN "reply" ELSE "read"
        /\ UNCHANGED <<table, i>>
  /\ UNCHANGED <<status, p, backlog, open, eof, reset, clients>>

(* All of the reply was written.  A closed socket it reaches can answer    *)
(* with a reset.                                                           *)
Replied ==
  /\ Marked(FALSE)
  /\ waiting' = [waiting EXCEPT ![fd] = FALSE]
  /\ \E r \in {FALSE, eof[fd]} : reset' = [reset EXCEPT ![fd] = r]
  /\ UNCHANGED status

(* parse_request takes what was read for one request; handle_request        *)
(* replies to it.  A write after a reset ends the server.  One that is      *)
(* larger than the room in the kernel's buffer blocks, whatever that room   *)
(* is: the client has to read first.                                        *)
reply ==
  /\ At("reply")
  /\ \/ /\ Head(arena) # "get"
        /\ Marked(TRUE)
        /\ UNCHANGED <<status, reset, waiting>>
     \/ /\ Head(arena) = "get" /\ reset[fd]
        /\ status' = "failed"
        /\ UNCHANGED <<pc, table, i, reset, waiting>>
     \/ /\ Head(arena) = "get" /\ ~reset[fd]
        /\ Replied
     \/ /\ Head(arena) = "get" /\ ~reset[fd]
        /\ pc' = "write"
        /\ UNCHANGED <<status, table, i, reset, waiting>>
  /\ UNCHANGED <<p, arena, backlog, open, inbox, eof, todo, connects, requests>>

(* The client reads on until the rest fits, which nothing makes it do, or  *)
(* it has closed its end and answers with a reset.                         *)
write_unblocked ==
  /\ At("write") /\ ~reset[fd]
  /\ \/ Replied
     \/ /\ eof[fd]
        /\ reset' = [reset EXCEPT ![fd] = TRUE]
        /\ UNCHANGED <<status, pc, table, i, waiting>>
  /\ UNCHANGED <<p, arena, backlog, open, inbox, eof, todo, connects, requests>>

write_failed ==
  /\ At("write") /\ reset[fd]
  /\ status' = "failed"
  /\ UNCHANGED <<pc, table, i, p, arena, sockets, clients>>

(* The compacting loop, one element at a time: a marked one is closed, the *)
(* others move down.  Their marks stay where they are.                     *)
compact_close ==
  /\ At("compact")
  /\ i < new_conn_count /\ remove_marks[i]
  /\ Disconnected({fd})
  /\ i' = i + 1
  /\ UNCHANGED <<pc, status, table, p, arena>>

Next_place_stuck == p  \* mutant: p is not incremented

Next_place == p + 1

compact_keep ==
  /\ At("compact")
  /\ i < new_conn_count /\ ~remove_marks[i]
  /\ connections' = [connections EXCEPT ![p] = connections[i]]
  /\ p' = Next_place
  /\ i' = i + 1
  /\ UNCHANGED <<pc, status, remove_marks, conn_count, new_conn_count, arena, sockets, clients>>

compacted ==
  /\ At("compact")
  /\ i = new_conn_count
  /\ conn_count' = p
  /\ pc' = "poll"
  /\ UNCHANGED <<status, connections, remove_marks, new_conn_count, i, p, arena, sockets, clients>>

(* SIGINT: the handler closes connections[conn_count] too, which holds the *)
(* connection accepted last while new_conn_count is ahead, and exits; what *)
(* its clients had sent is lost.  When the table is full there is no       *)
(* connections[conn_count]: what is read behind the table is closed.       *)
Handled_short == 0..conn_count - 1  \* mutant: the loop starts below conn_count

Handled == 0..conn_count

close_handler ==
  /\ status = "running"
  /\ \/ /\ Handled \subseteq Slot
        /\ status' = "closed"
        /\ Disconnected({connections[s].fd : s \in Handled})
     \/ /\ ~(Handled \subseteq Slot)
        /\ status' = "undefined"
        /\ UNCHANGED <<sockets, clients>>
  /\ UNCHANGED server

-----------------------------------------------------------------------------
Server ==
  \/ create_socket \/ store_listener
  \/ poll \/ accept_connection \/ store_connection
  \/ serve \/ read \/ read_failed \/ reply \/ write_failed
  \/ compact_close \/ compact_keep \/ compacted

Next ==
  \/ create_socket
  \/ store_listener
  \/ poll
  \/ poll_failed
  \/ accept_connection
  \/ store_connection
  \/ serve
  \/ read
  \/ read_failed
  \/ reply
  \/ write_unblocked
  \/ write_failed
  \/ compact_close
  \/ compact_keep
  \/ compacted
  \/ close_handler
  \/ \E c \in Client : Client_step(c) /\ UNCHANGED server

Spec == Init /\ [][Next]_vars

\* The one thread is scheduled; poll, while it may fail, does not fail forever.
\* That a client reads its reply is not counted on.
FairSpec == Spec /\ WF_vars(Server) /\ SF_vars(poll)

-----------------------------------------------------------------------------
TypeOK ==
  /\ pc \in {"create", "listening", "poll", "accept", "store", "serve", "read", "reply",
             "write", "compact"}
  /\ connections \in [Slot -> [fd : Fd \cup {Stdin}, in : BOOLEAN]]
  /\ remove_marks \in [Slot -> BOOLEAN]
  /\ conn_count \in 0..MaxConnections
  /\ new_conn_count \in 1..MaxConnections
  /\ i \in 1..MaxConnections
  /\ p \in 1..MaxConnections
  /\ arena \in Seq(Unit)
  /\ ClientsTypeOK

(* Whenever the server polls, its table holds every descriptor it has open *)
(* exactly once and none it has closed: the compacting loop lost no        *)
(* connection, kept none it closed and closed none twice.                  *)
TableHoldsOpen ==
  At("poll") =>
    /\ {connections[s].fd : s \in 0..conn_count - 1} = open
    /\ Cardinality(open) = conn_count

(* SIGINT can come in the middle of the compacting loop, or after a        *)
(* connection was accepted and before conn_count counts it: whenever it    *)
(* comes while the table is not full, the handler closes every open        *)
(* descriptor but for the one that was returned by create_socket or accept *)
(* and is not stored in the table yet.  With a full table the handler's    *)
(* loop starts behind it, and the program ends as "undefined".             *)
HandlerClosesAll ==
  status = "closed" => open \subseteq CASE pc = "listening" -> {Listener}
                                        [] pc = "store"     -> {Head(backlog)}
                                        [] OTHER            -> {}

(* A connection is accepted once the server is back at poll, and a client  *)
(* that has sent its whole request gets a reply or is disconnected; unless *)
(* the server stopped, or waits forever in a read for bytes that a client  *)
(* does not send, or in a write of a reply that a client does not read.    *)
Pending(c) == \/ Queued(c)
              \/ c \in open /\ waiting[c] /\ todo[c] = <<>> /\ ~reset[c]

ReadBlocked == At("read") /\ inbox[fd] = <<>> /\ ~eof[fd] /\ ~reset[fd]

WriteBlocked == At("write") /\ ~reset[fd]

Answered ==
  \A c \in Client :
    \/ Pending(c) ~> ~Pending(c) \/ status # "running"
    \/ <>[]ReadBlocked
    \/ <>[]WriteBlocked

(* A client that sends whole requests, has a reply to each and has not     *)
(* closed its end keeps its connection, as the reply's `Connection:        *)
(* keep-alive` says.                                                       *)
KeepAlive ==
  [][ \A c \in open \ open' :
        status' = "running" => eof[c] \/ reset[c] \/ waiting[c] \/ todo[c] # <<>> ]_vars

=============================================================================
