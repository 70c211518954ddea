------------------------------- MODULE Server -------------------------------
(***************************************************************************)
(* The web server of server.c: the poller (module Poller) with the clients *)
(* (module WebClients) on its sockets and the loop of main between them.   *)
(* Ctrl-C only clears `running`, which the loop reads before and after     *)
(* every wait.  Sockets do not block.  The requests read are not replied   *)
(* to: the source ends where they are parsed.                              *)
(*                                                                         *)
(* parse_request_line and parse_header are abstracted to what they can     *)
(* return; buffers are not kept, as `pos` stays 0 and each call of         *)
(* process_connection overwrites what the last one read.                   *)
(***************************************************************************)
EXTENDS WebClients, FiniteSets, FiniteSetsExt

CONSTANTS
  MaxConnections,  \* MAX_CONNECTIONS: the poller's limit and the elements of the table
  Buffer,          \* MAX_REQUEST_SIZE, in units
  None             \* see Poller

Id == 0..MaxConnections - 1

Nobody == "nobody"  \* the socket of an element that was not given out

ParseState == {"RequestLine", "Headers", "Body"}

ASSUME ServerAssumption == MaxConnections \in Nat \ {0} /\ Buffer \in Nat \ {0}

VARIABLES
  pc,                \* where in main or process_connection the server is
  running,
  connections,       \* id |-> [socket, state]
  connection_count,
  read,              \* what the process_connection that runs has read; <<>> without one
  \* module Poller's, `poller` being its status
  fds, data, fd_limit, fd_capacity, event_count, event_pos, msg, poller

net_poller == <<fds, data, fd_limit, fd_capacity, event_count, event_pos, msg, poller>>
table      == <<connections, connection_count>>
main       == <<pc, table, read>>
vars       == <<main, running, net_poller, status, sockets, clients>>

\* `events` of the listener's info and of every connection's.
Interest == {"in"}

ListenerInfo == [events |-> Interest, data |-> 0]

P == INSTANCE Poller WITH
  status <- poller, Socket <- Fd, Events <- {"in"}, Conditions <- {"err"}, Data <- 0..MaxConnections,
  Creations <- { [ sockets     |-> << [fd |-> Listener, info |-> ListenerInfo] >>,
                   count_limit |-> MaxConnections ] }

Init ==
  /\ pc = "create"
  /\ running = TRUE
  /\ connections = [id \in Id |-> [socket |-> Nobody, state |-> "RequestLine"]]
  /\ connection_count = 0
  /\ read = <<>>
  /\ P!Init  \* nothing looks at the poller before it is created
  /\ ClientsInit

At(label) == status = "running" /\ pc = label

Goto(label) == pc' = label /\ UNCHANGED <<status, running>>

Exit(how) == status' = how /\ UNCHANGED <<pc, running>>

-----------------------------------------------------------------------------
(* main *)

(* The listener is created and then the poller; or the program exits. *)
create ==
  /\ At("create")
  /\ \/ open' = {Listener} /\ Goto("loop")
     \/ UNCHANGED open /\ Exit("failed")
  /\ UNCHANGED <<table, read, net_poller, backlog, inbox, eof, reset, clients>>

loop ==
  /\ At("loop")
  /\ Goto(IF running THEN "wait" ELSE "free")
  /\ UNCHANGED <<table, read, net_poller, sockets, clients>>

(* What poll finds on a socket. *)
Found_on(s) ==
  {e \in Interest : Readable(s)} \cup {e \in {"err"} : s # Listener /\ reset[s]}

Any_ready == \E k \in 1..P!fd_count : Readable(fds[k].fd)

wait_event ==
  /\ At("wait")
  /\ P!net_poller_wait_Event([k \in 1..P!fd_count |-> Found_on(fds[k].fd)])
  /\ Goto(IF running THEN "sweep" ELSE "free")
  /\ UNCHANGED <<table, read, sockets, clients>>

(* The second is over, or Ctrl-C came while poll was waiting. *)
Nothing_forever == ~Any_ready /\ FALSE  \* mutant: a wait without a timeout

Nothing == ~Any_ready

wait_nothing ==
  /\ At("wait") /\ Nothing
  /\ P!net_poller_wait_Nothing
  /\ Goto("loop")
  /\ UNCHANGED <<table, read, sockets, clients>>

wait_error ==
  /\ At("wait")
  /\ P!net_poller_wait_Nothing
  /\ Goto("free")
  /\ UNCHANGED <<table, read, sockets, clients>>

next ==
  /\ At("sweep")
  /\ P!net_poller_next
  /\ Goto(IF msg' = None THEN "loop" ELSE "message")
  /\ UNCHANGED <<table, read, sockets, clients>>

New_id_next == connection_count + 1  \* mutant: the count is read too late

New_id == connection_count

(* A message of the listener.  Ids are not given out again, and nothing    *)
(* compares connection_count with MAX_CONNECTIONS.                         *)
accept ==
  /\ At("message") /\ msg.socket = Listener
  /\ LET conn == Head(backlog) IN
       /\ open' = open \cup {conn}
       /\ P!net_poller_add(conn, [events |-> Interest, data |-> New_id])
       /\ IF poller' = "limit"
          THEN Exit("failed") /\ UNCHANGED table
          ELSE IF connection_count = MaxConnections
          THEN Exit("undefined") /\ UNCHANGED table
          ELSE /\ connections' = [ connections EXCEPT ![connection_count] =
                                     [socket |-> conn, state |-> "RequestLine"] ]
               /\ connection_count' = connection_count + 1
               /\ Goto("sweep")
  /\ backlog' = Tail(backlog)
  /\ UNCHANGED <<read, inbox, eof, reset, clients>>

(* A message of a connection: an error closes it unread. *)
connection_event ==
  /\ At("message") /\ msg.socket # Listener
  /\ Goto(IF "err" \in msg.events THEN "close" ELSE "recv")
  /\ UNCHANGED <<table, read, net_poller, sockets, clients>>

close ==
  /\ At("close")
  /\ Disconnected({msg.socket})
  /\ P!net_poller_remove_this
  /\ Goto("sweep")
  /\ UNCHANGED <<table, read>>

Freed_none == {}  \* mutant: close_sockets is false

Freed == P!Registered

free ==
  /\ At("free")
  /\ P!net_poller_free
  /\ Disconnected(Freed)
  /\ Exit("closed")
  /\ UNCHANGED <<table, read>>

-----------------------------------------------------------------------------
(* process_connection, called for the message's socket with its data.      *)

fd == msg.socket
id == msg.data

space_left == Buffer - Len(read)

Taken == SubSeq(inbox[fd], 1, Min({space_left, Len(inbox[fd])}))

recv ==
  /\ At("recv") /\ Taken # <<>>
  /\ read' = read \o Taken
  /\ inbox' = [inbox EXCEPT ![fd] = SubSeq(@, Len(Taken) + 1, Len(@))]
  /\ UNCHANGED <<pc, table, running, net_poller, status, backlog, open, eof, reset, clients>>

recv_failed ==
  /\ At("recv") /\ space_left > 0
  /\ inbox[fd] = <<>> /\ reset[fd]
  /\ Exit("failed")
  /\ UNCHANGED <<table, read, net_poller, sockets, clients>>

(* The loop ends when the buffer is full, and when nothing is there now.   *)
(* The end of the connection ends it only as the first thing read: after   *)
(* that recv returns 0 again and again, which is no step.                  *)
Spinning == At("recv") /\ space_left > 0 /\ inbox[fd] = <<>> /\ eof[fd] /\ ~reset[fd]
            /\ read # <<>>

recv_over ==
  /\ At("recv") /\ ~Spinning
  /\ \/ space_left = 0
     \/ inbox[fd] = <<>> /\ ~reset[fd]
  /\ Goto(IF read = <<>> THEN "close" ELSE "parse")
  /\ UNCHANGED <<table, read, net_poller, sockets, clients>>

(* parse_request.  parse_request_line may be done, or return Partial or    *)
(* Error whatever the line starts with.  parse_header does not advance in  *)
(* the buffer, ends in some cases without a value, and asserts that it     *)
(* meets no date: the loop around it returns, aborts or never ends.  Only  *)
(* headers that are over lead to Body, which is not looked at any more.    *)
Becomes(state) == connections' = [connections EXCEPT ![id].state = state]

parse_request ==
  /\ At("parse")
  /\ LET state == connections[id].state
     IN  \/ state # "Headers" /\ UNCHANGED connections /\ Goto("sweep")
         \/ /\ state = "Headers" \/ (state = "RequestLine" /\ Head(read) = "get")
            /\ \/ Becomes("Headers") /\ (Goto("sweep") \/ Goto("headers") \/ Exit("failed"))
               \/ Head(read) = "rest" /\ Becomes("Body") /\ Goto("sweep")
  /\ read' = <<>>
  /\ UNCHANGED <<connection_count, net_poller, sockets, clients>>

-----------------------------------------------------------------------------
(* The handler of SIGINT clears the flag; the program goes on. *)
close_handler ==
  /\ status = "running"
  /\ running' = FALSE
  /\ UNCHANGED <<main, net_poller, status, sockets, clients>>

Main ==
  \/ create
  \/ loop
  \/ wait_event
  \/ wait_nothing
  \/ next
  \/ accept
  \/ connection_event
  \/ close
  \/ free
  \/ recv
  \/ recv_failed
  \/ recv_over
  \/ parse_request

Next ==
  \/ Main
  \/ wait_error
  \/ close_handler
  \/ \E c \in Client : Client_step(c) /\ UNCHANGED <<main, running, net_poller>>

Spec == Init /\ [][Next]_vars

\* The one thread is scheduled; that poll fails is never counted on.
FairSpec == Spec /\ WF_vars(Main)

-----------------------------------------------------------------------------
TypeOK ==
  /\ pc \in {"create", "loop", "wait", "sweep", "message", "close", "recv", "parse",
             "headers", "free"}
  /\ running \in BOOLEAN
  /\ connections \in [Id -> [socket : Client \cup {Nobody}, state : ParseState]]
  /\ connection_count \in 0..MaxConnections
  /\ read \in Seq(Unit) /\ Len(read) <= Buffer
  /\ P!TypeOK
  /\ ClientsTypeOK

(* Whenever the server is about to wait, it polls exactly the sockets it   *)
(* has open, each once; and when it has ended its loop, whether Ctrl-C     *)
(* came inside a wait or inside a sweep, it has closed all of them.        *)
NothingLeaks ==
  /\ At("wait") => P!Registered = open /\ Cardinality(open) = P!fd_count
  /\ status = "closed" => open = {}

(* The data that the poller hands out with a socket is the number of the   *)
(* connection's own element in the table, however often elements of the    *)
(* poller were moved by removals and descriptors used again since the      *)
(* socket was added.                                                       *)
DataIsOwn ==
  status = "running" =>
    /\ \A k \in 1..P!fd_count :
         fds[k].fd # Listener =>
           data[k] < connection_count /\ connections[data[k]].socket = fds[k].fd
    /\ pc \in {"recv", "parse"} => connections[id].socket = fd

(* The loops that the source leaves without a way out. *)
Stuck == Spinning \/ At("headers")

(* Ctrl-C ends the program, also when it comes between the loop's test of  *)
(* `running` and the call of poll, which it then does not interrupt.       *)
Stops == ~running ~> status # "running" \/ Stuck

(* What clients send is read and who connects is accepted, unless the      *)
(* server ends or is caught in one of those loops.                         *)
Unserved(c) == Queued(c) \/ (c \in open /\ inbox[c] # <<>>)

Served ==
  \A c \in Client : Unserved(c) ~> ~Unserved(c) \/ status # "running" \/ Stuck

=============================================================================
