------------------------------- MODULE SerWin -------------------------------
(***************************************************************************)
(* The web server of ser_win.c: the main thread polls the listener and its *)
(* connections, accepts until there is nothing to accept, reads each       *)
(* reported connection until there is nothing to read, replies, closes the *)
(* connections it marked and compacts the table.  Ctrl-C starts a second   *)
(* thread, close_handler, which closes the listener and the connections of *)
(* the same table one by one and then shuts Winsock down, so that the main *)
(* thread's next call fails and ends the process.  No socket blocks.       *)
(***************************************************************************)
EXTENDS WebClients, FiniteSets, FiniteSetsExt

CONSTANTS
  MaxConnections,  \* MAX_CONNECTIONS, the elements of both tables
  Buffer           \* units that fill the buffer of one recv

Slot == 0..MaxConnections - 1

LISTEN_ID == 0

\* What the zeroed table names.
No_socket == "0"

ASSUME SerWinAssumption ==
  MaxConnections \in Nat \ {0} /\ Buffer \in Nat \ {0}

VARIABLES
  \* the main thread
  pc,              \* where in main it is
  new_conn_count, i, p,
  arena,           \* what the process_request that runs has read
  \* both threads
  connections,     \* slot |-> [fd, in, hup]: POLLIN, and POLLERR or POLLHUP
  conn_count,
  \* the main thread
  remove_marks,
  \* the thread of close_handler
  handler,         \* "idle", "listener", "connections", "cleanup" or "done"
  conn_id

table == <<connections, remove_marks, conn_count, new_conn_count>>
main  == <<pc, table, i, p, arena>>
vars  == <<main, handler, conn_id, status, sockets, clients>>

Init ==
  /\ pc = "start"
  /\ connections = [s \in Slot |-> [fd |-> No_socket, in |-> FALSE, hup |-> FALSE]]
  /\ remove_marks = [s \in Slot |-> FALSE]
  /\ conn_count = 0 /\ new_conn_count = 1
  /\ i = 1 /\ p = 1
  /\ arena = <<>>
  /\ handler = "idle" /\ conn_id = 1
  /\ ClientsInit

-----------------------------------------------------------------------------
(* The main thread. *)

At(label) == status = "running" /\ pc = label

(* Winsock is started, the listener opened and stored, the handler         *)
(* registered; any of it may fail and end the process.                     *)
start ==
  /\ At("start")
  /\ \/ status' = "failed" /\ UNCHANGED <<pc, connections, conn_count, open>>
     \/ /\ open' = {Listener}
        /\ connections' = [connections EXCEPT ![LISTEN_ID].fd = Listener]
        /\ conn_count' = 1
        /\ pc' = "poll"
        /\ UNCHANGED status
  /\ UNCHANGED <<remove_marks, new_conn_count, i, p, arena, handler, conn_id,
                 backlog, inbox, eof, reset, clients>>

\* A Winsock call with fd succeeds: Winsock is up and fd was not closed.
Usable(s) == handler # "done" /\ s \in open

Polled(s, both) ==
  LET f == connections[s].fd IN
  [ fd  |-> f,
    in  |-> /\ f \in open
            /\ IF f = Listener THEN backlog # <<>>
               ELSE inbox[f] # <<>> \/ (both /\ (eof[f] \/ reset[f])),
    hup |-> f \in open \ {Listener} /\ (eof[f] \/ reset[f]) ]

(* WSAPoll returns when a socket is ready, or closed by the handler, which *)
(* it reports with neither flag.  `both`: whether the end of a connection  *)
(* is reported as readable too.                                            *)
poll ==
  /\ At("poll")
  /\ handler # "done"
  /\ \E s \in 0..conn_count - 1 :
       connections[s].fd \notin open \/ Readable(connections[s].fd)
  /\ \E both \in BOOLEAN :
       connections' = [s \in Slot |-> IF s < conn_count THEN Polled(s, both) ELSE connections[s]]
  /\ new_conn_count' = conn_count
  /\ i' = LISTEN_ID + 1
  /\ pc' = IF connections'[LISTEN_ID].in THEN "accept" ELSE "serve"
  /\ UNCHANGED <<remove_marks, conn_count, p, arena, handler, conn_id, status, sockets, clients>>

\* mutant: the error is not looked at, and the loop goes on without revents
poll_failed_ignored ==
  /\ At("poll")
  /\ handler = "done"
  /\ connections' = [s \in Slot |-> [connections[s] EXCEPT !.in = FALSE, !.hup = FALSE]]
  /\ new_conn_count' = conn_count
  /\ i' = LISTEN_ID + 1
  /\ pc' = "serve"
  /\ UNCHANGED <<remove_marks, conn_count, p, arena, handler, conn_id, status, sockets, clients>>

(* WSAPoll fails after WSACleanup, and may when it is given a closed       *)
(* socket.                                                                 *)
poll_failed ==
  /\ At("poll")
  /\ handler = "done" \/ \E s \in 0..conn_count - 1 : connections[s].fd \notin open
  /\ status' = "failed"
  /\ UNCHANGED <<main, handler, conn_id, sockets, clients>>

(* accept_connection fails when the handler closed the listener, and may   *)
(* when the client that is first in the queue has reset its connection.    *)
accept_failed ==
  /\ At("accept")
  /\ ~Usable(Listener) \/ (backlog # <<>> /\ reset[Head(backlog)])
  /\ status' = "failed"
  /\ UNCHANGED <<main, handler, conn_id, sockets, clients>>

(* Nothing compares new_conn_count with MAX_CONNECTIONS. *)
accept_connection ==
  /\ At("accept") /\ Usable(Listener)
  /\ \/ /\ backlog = <<>>
        /\ pc' = "serve"
        /\ UNCHANGED <<table, status, backlog, open>>
     \/ /\ backlog # <<>>
        /\ open' = open \cup {Head(backlog)}
        /\ backlog' = Tail(backlog)
        /\ \/ /\ new_conn_count = MaxConnections
              /\ status' = "undefined"
              /\ UNCHANGED table
           \/ /\ new_conn_count < MaxConnections
              /\ connections' = [ connections EXCEPT ![new_conn_count] =
                                    [fd |-> Head(backlog), in |-> FALSE, hup |-> FALSE] ]
              /\ remove_marks' = [remove_marks EXCEPT ![new_conn_count] = FALSE]
              /\ new_conn_count' = new_conn_count + 1
              /\ UNCHANGED <<status, conn_count>>
        /\ UNCHANGED pc
  /\ UNCHANGED <<i, p, arena, handler, conn_id, inbox, eof, reset, clients>>

Served_short == 1..conn_count - 2  \* mutant: the last connection is left out

Served == 1..conn_count - 1

Reported == {s \in Served : s >= i /\ (connections[s].in \/ connections[s].hup)}

\* Where the compacting loop puts the first survivor.
First_place_listener == LISTEN_ID  \* mutant: the listener's slot is not left alone

First_place == LISTEN_ID + 1

(* The loop over the connections of before the accept: on to the next one  *)
(* that was reported, or to the compaction.                                *)
serve ==
  /\ At("serve")
  /\ \/ /\ Reported # {}
        /\ i' = Min(Reported)
        /\ pc' = IF connections[i'].in THEN "recv" ELSE "flags"
        /\ UNCHANGED p
     \/ /\ Reported = {}
        /\ i' = 1 /\ p' = First_place
        /\ pc' = "compact"
  /\ UNCHANGED <<table, arena, handler, conn_id, status, sockets, clients>>

fd == connections[i].fd

Marked(mark) == remove_marks' = [remove_marks EXCEPT ![i] = @ \/ mark]

(* One recv of process_request.  Only the first tells the end of the       *)
(* connection: one that follows it returns 0 again and again.              *)
Taken == SubSeq(inbox[fd], 1, Min({Buffer, Len(inbox[fd])}))

recv ==
  /\ At("recv")
  /\ \/ /\ ~Usable(fd) \/ (inbox[fd] = <<>> /\ reset[fd])
        /\ status' = "failed"
        /\ UNCHANGED <<pc, remove_marks, arena, inbox>>
     \/ /\ Usable(fd) /\ Taken # <<>>
        /\ arena' = arena \o Taken
        /\ inbox' = [inbox EXCEPT ![fd] = SubSeq(@, Len(Taken) + 1, Len(@))]
        /\ UNCHANGED <<pc, remove_marks, status>>
     \/ /\ Usable(fd) /\ Taken = <<>> /\ eof[fd] /\ ~reset[fd]
        /\ arena = <<>>
        /\ Marked(TRUE)
        /\ pc' = "flags"
        /\ UNCHANGED <<arena, inbox, status>>
     \/ /\ Usable(fd) /\ Taken = <<>> /\ ~eof[fd] /\ ~reset[fd]  \* WSAEWOULDBLOCK
        /\ pc' = "reply"
        /\ UNCHANGED <<remove_marks, arena, inbox, status>>
  /\ UNCHANGED <<connections, conn_count, new_conn_count, i, p, handler, conn_id,
                 backlog, open, eof, reset, clients>>

(* parse_request takes what was read for one request and handle_request    *)
(* replies to it.  A send that fails ends the process, and so does one     *)
(* that finds too little room for the reply: the socket does not block.    *)
reply ==
  /\ At("reply")
  /\ \/ /\ arena = <<>> \/ Head(arena) # "get"
        /\ Marked(TRUE)
        /\ pc' = "flags" /\ arena' = <<>>
        /\ UNCHANGED <<status, reset, waiting>>
     \/ /\ arena # <<>> /\ Head(arena) = "get"
        /\ status' = "failed"
        /\ UNCHANGED <<pc, remove_marks, arena, reset, waiting>>
     \/ /\ arena # <<>> /\ Head(arena) = "get"
        /\ Usable(fd) /\ ~reset[fd]
        /\ Marked(FALSE)
        /\ pc' = "flags" /\ arena' = <<>>
        /\ waiting' = [waiting EXCEPT ![fd] = FALSE]
        /\ \E r \in {FALSE, eof[fd]} : reset' = [reset EXCEPT ![fd] = r]
        /\ UNCHANGED status
  /\ UNCHANGED <<connections, conn_count, new_conn_count, i, p, handler, conn_id,
                 backlog, open, inbox, eof, todo, connects, requests>>

(* POLLERR and POLLHUP mark the connection whatever was read from it. *)
flags ==
  /\ At("flags")
  /\ Marked(connections[i].hup)
  /\ i' = i + 1
  /\ pc' = "serve"
  /\ UNCHANGED <<connections, conn_count, new_conn_count, p, arena, handler, conn_id,
                 status, sockets, clients>>

(* The compacting loop, one element at a time.  closesocket of what the    *)
(* handler closed fails, which is printed.  Marks stay where they are.     *)
compact_close ==
  /\ At("compact")
  /\ i < new_conn_count /\ remove_marks[i]
  /\ Disconnected({fd})
  /\ i' = i + 1
  /\ UNCHANGED <<pc, table, p, arena, handler, conn_id, status>>

Next_place_stuck == p  \* mutant: p is not incremented

Next_place == p + 1

compact_keep ==
  /\ At("compact")
  /\ i < new_conn_count /\ ~remove_marks[i]
  /\ connections' = [connections EXCEPT ![p] = connections[i]]
  /\ p' = Next_place
  /\ i' = i + 1
  /\ UNCHANGED <<pc, remove_marks, conn_count, new_conn_count, arena, handler, conn_id,
                 status, sockets, clients>>

compacted ==
  /\ At("compact")
  /\ i = new_conn_count
  /\ conn_count' = p
  /\ pc' = "poll"
  /\ UNCHANGED <<connections, remove_marks, new_conn_count, i, p, arena, handler, conn_id,
                 status, sockets, clients>>

-----------------------------------------------------------------------------
(* The thread of close_handler; it reads conn_count and the table while    *)
(* the main thread may be compacting it.                                   *)

Handler_at(label) == status = "running" /\ handler = label

First_closed_connections == "connections"  \* mutant: the listener is left to WSACleanup

First_closed == "listener"

ctrl_c ==
  /\ Handler_at("idle") /\ pc # "start"
  /\ handler' = First_closed
  /\ UNCHANGED <<main, conn_id, status, sockets, clients>>

close_listener ==
  /\ Handler_at("listener")
  /\ Disconnected({connections[LISTEN_ID].fd})
  /\ handler' = "connections"
  /\ conn_id' = LISTEN_ID + 1
  /\ UNCHANGED <<main, status>>

close_connection ==
  /\ Handler_at("connections")
  /\ \/ /\ conn_id < conn_count
        /\ Disconnected({connections[conn_id].fd})
        /\ conn_id' = conn_id + 1
        /\ UNCHANGED handler
     \/ /\ conn_id >= conn_count
        /\ handler' = "cleanup"
        /\ UNCHANGED <<conn_id, sockets, clients>>
  /\ UNCHANGED <<main, status>>

(* WSACleanup closes every socket that is still open. *)
cleanup ==
  /\ Handler_at("cleanup")
  /\ Disconnected(open)
  /\ handler' = "done"
  /\ UNCHANGED <<main, conn_id, status>>

-----------------------------------------------------------------------------
Main ==
  \/ start
  \/ poll \/ poll_failed \/ accept_connection \/ accept_failed
  \/ serve \/ recv \/ reply \/ flags
  \/ compact_close \/ compact_keep \/ compacted

Handler == close_listener \/ close_connection \/ cleanup

Next ==
  \/ start
  \/ poll
  \/ poll_failed
  \/ accept_connection
  \/ accept_failed
  \/ serve
  \/ recv
  \/ reply
  \/ flags
  \/ compact_close
  \/ compact_keep
  \/ compacted
  \/ ctrl_c
  \/ close_listener
  \/ close_connection
  \/ cleanup
  \/ \E c \in Client : Client_step(c) /\ UNCHANGED <<main, handler, conn_id>>

Spec == Init /\ [][Next]_vars

\* Both threads are scheduled.
FairSpec == Spec /\ WF_vars(Main) /\ WF_vars(Handler)

-----------------------------------------------------------------------------
TypeOK ==
  /\ pc \in {"start", "poll", "accept", "serve", "recv", "reply", "flags", "compact"}
  /\ connections \in [Slot -> [fd : Fd \cup {No_socket}, in : BOOLEAN, hup : BOOLEAN]]
  /\ remove_marks \in [Slot -> BOOLEAN]
  /\ conn_count \in 0..MaxConnections
  /\ new_conn_count \in 1..MaxConnections
  /\ i \in 1..MaxConnections
  /\ p \in 1..MaxConnections
  /\ arena \in Seq(Unit)
  /\ handler \in {"idle", "listener", "connections", "cleanup", "done"}
  /\ conn_id \in 1..MaxConnections
  /\ ClientsTypeOK

(* Until Ctrl-C the table holds, at every poll, each open descriptor       *)
(* exactly once and none that was closed.                                  *)
TableHoldsOpen ==
  At("poll") /\ handler = "idle" =>
    /\ {connections[s].fd : s \in 0..conn_count - 1} = open
    /\ Cardinality(open) = conn_count

(* The handler closes the listener before any connection: from then on no  *)
(* socket is opened, so that a handle it reads from the table, however     *)
(* late, is never one that was closed and given to a new connection.       *)
ClosedForGood ==
  [][handler \notin {"idle", "listener"} => open' \subseteq open]_vars

(* Ctrl-C ends the process, as the comment in close_handler relies on:     *)
(* whatever the main thread is doing, it gets to a call that fails, also   *)
(* from a recv that it repeats forever.                                    *)
Stops == handler # "idle" ~> status # "running"

(* A connection is accepted once the main thread is back at WSAPoll, and a *)
(* client that has sent its whole request gets a reply or is disconnected; *)
(* unless the server stopped, or repeats forever a recv from a connection  *)
(* that its client closed after it sent data.                              *)
Pending(c) == \/ Queued(c)
              \/ c \in open /\ waiting[c] /\ todo[c] = <<>> /\ ~reset[c]

Spinning == At("recv") /\ arena # <<>> /\ inbox[fd] = <<>> /\ eof[fd]

Answered ==
  \A c \in Client :
    (Pending(c) ~> ~Pending(c) \/ status # "running") \/ <>[]Spinning

=============================================================================
