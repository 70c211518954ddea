---------------------------- MODULE ServerProofs ----------------------------
(***************************************************************************)
(* Proofs about server.c with its poller, for any clients, requests, table *)
(* and buffer: the poller holds exactly what is open, the ids it hands out *)
(* are those of the connections' own elements, and a program that Ctrl-C   *)
(* ended has closed everything.                                            *)
(***************************************************************************)
EXTENDS Server, Integers, SequenceTheorems, FiniteSetTheorems, FunctionTheorems,
        WellFoundedInduction, TLAPS

-----------------------------------------------------------------------------
(* What the steps of clients leave of their types *)

(* The clients keep their types. *)
LEMMA ClientStepType ==
  ASSUME ClientsTypeOK, NEW c \in Client, Client_step(c)
  PROVE  ClientsTypeOK'
<1> USE DEF ClientsTypeOK, sockets, clients
<1>1. CASE Connect(c)
  <2>1. backlog' \in Seq(Client)
    BY <1>1, AppendProperties DEF Connect
  <2>2. connects' \in 0..MaxConnects
    BY <1>1, WebClientsAssumption DEF Connect
  <2> QED
    BY <1>1, <2>1, <2>2 DEF Connect
<1>2. CASE Begin(c)
  <2>1. todo' \in [Client -> Seq(Unit)]
    BY <1>2, WebClientsAssumption DEF Begin
  <2>2. requests' \in 0..MaxRequests
    BY <1>2, WebClientsAssumption DEF Begin
  <2> QED
    BY <1>2, <2>1, <2>2 DEF Begin
<1>3. CASE Send(c)
  <2>1. todo[c] \in Seq(Unit) /\ todo[c] # <<>> /\ inbox[c] \in Seq(Unit)
    BY <1>3 DEF Send
  <2>2. Tail(todo[c]) \in Seq(Unit) /\ Head(todo[c]) \in Unit
    BY <2>1, HeadTailProperties
  <2>3. Append(inbox[c], Head(todo[c])) \in Seq(Unit)
    BY <2>1, <2>2, AppendProperties
  <2> QED
    BY <1>3, <2>2, <2>3 DEF Send
<1>4. CASE Close(c)
  BY <1>4 DEF Close
<1>5. CASE Reset(c)
  BY <1>5 DEF Reset
<1> QED
  BY <1>1, <1>2, <1>3, <1>4, <1>5 DEF Client_step

(* Clients whose connections the program closed keep their types. *)
LEMMA DisconnectedType ==
  ASSUME ClientsTypeOK, NEW gone, Disconnected(gone),
         status' \in {"running", "closed", "failed", "undefined"}
  PROVE  ClientsTypeOK'
<1>1. <<>> \in Seq(Unit)
  BY EmptySeq
<1> QED
  BY <1>1 DEF ClientsTypeOK, Disconnected

-----------------------------------------------------------------------------
(* The queue of connections that wait for an accept *)

(* Clients open and close nothing at the server. *)
LEMMA ClientStepQueue ==
  ASSUME ClientsTypeOK, NEW c \in Client, Client_step(c),
         NEW accepted \in BOOLEAN, QueueIsFresh(accepted)
  PROVE  /\ open' = open /\ status' = status /\ status = "running"
         /\ QueueIsFresh(accepted)'
         /\ backlog # <<>> => backlog' # <<>> /\ Head(backlog') = Head(backlog)
<1>1. open' = open /\ status' = status /\ status = "running"
  BY DEF Client_step, Connect, Begin, Send, Close, Reset, Talking, sockets
<1>2. CASE backlog' = backlog
  BY <1>1, <1>2 DEF QueueIsFresh
<1>3. CASE c \notin open /\ ~Queued(c) /\ backlog' = Append(backlog, c)
  <2>1. /\ Len(backlog') = Len(backlog) + 1 /\ Len(backlog) \in Nat
        /\ \A k \in 1..Len(backlog) : backlog'[k] = backlog[k]
        /\ backlog'[Len(backlog) + 1] = c
        /\ backlog' # <<>>
    <3>1. backlog \in Seq(Client)
      BY DEF ClientsTypeOK
    <3> QED
      BY <1>3, <3>1, AppendProperties, LenProperties
  <2>2. \A k \in 1..Len(backlog) : backlog[k] # c
    BY <1>3 DEF Queued
  <2>3. QueueIsFresh(accepted)'
    BY <1>1, <1>3, <2>1, <2>2 DEF QueueIsFresh
  <2>4. backlog # <<>> => Head(backlog') = Head(backlog)
    BY <1>3, HeadTailAppend DEF ClientsTypeOK
  <2> QED
    BY <1>1, <2>1, <2>3, <2>4
<1> QED
  BY <1>2, <1>3 DEF Client_step, Connect, Begin, Send, Close, Reset, sockets

(* Once the first was accepted and has left the queue, or before it is. *)
LEMMA TailIsFresh ==
  ASSUME ClientsTypeOK, NEW accepted \in BOOLEAN, QueueIsFresh(accepted), backlog # <<>>,
         backlog' = Tail(backlog), open' = open \cup {Head(backlog)}
  PROVE  QueueIsFresh(FALSE)' /\ (~accepted => Head(backlog) \notin open)
<1>1. /\ Len(backlog) \in Nat /\ Len(backlog) >= 1
      /\ Len(backlog') = Len(backlog) - 1
      /\ \A k \in 1..Len(backlog') : backlog'[k] = backlog[k + 1]
      /\ Head(backlog) = backlog[1]
  BY HeadTailProperties, LenProperties, EmptySeq DEF ClientsTypeOK
<1> QED
  BY <1>1 DEF QueueIsFresh

(* Fewer open descriptors leave the queue as it was. *)
LEMMA FewerOpenFresh ==
  ASSUME QueueIsFresh(FALSE), UNCHANGED backlog, open' \subseteq open
  PROVE  QueueIsFresh(FALSE)'
  BY DEF QueueIsFresh

-----------------------------------------------------------------------------
(* Tables *)

(* A function on 1..n is a sequence. *)
LEMMA FunctionIsSeq ==
  ASSUME NEW S, NEW n \in Nat, NEW f \in [1..n -> S]
  PROVE  f \in Seq(S) /\ Len(f) = n
  OBVIOUS

(* The loops over the table find the next slot that they look for. *)
LEMMA MinIsMember ==
  ASSUME NEW S \in SUBSET Nat, S # {}
  PROVE  Min(S) \in S
<1>1. IsWellFoundedOn(OpToRel(<, Nat), Nat)
  BY NatLessThanWellFounded
<1>2. PICK x \in S : \A y \in S : ~ (<<y, x>> \in OpToRel(<, Nat))
  BY <1>1, WFMin
<1>3. \A y \in S : ~ (y < x)
  BY <1>2 DEF OpToRel
<1>4. \A y \in S : x <= y
  BY <1>3
<1> QED
  BY <1>4 DEF Min

(* A table with no descriptor twice has as many as it has slots. *)
LEMMA SlotsCount ==
  ASSUME NEW n \in Nat, NEW f, NEW T,
         \A x : x \in T <=> \E s \in 0..n - 1 : x = f[s].fd,
         \A s, t \in 0..n - 1 : f[s].fd = f[t].fd => s = t
  PROVE  IsFiniteSet(T) /\ Cardinality(T) = n
<1> DEFINE g == [s \in 0..n - 1 |-> f[s].fd]
<1>1. g \in Bijection(0..n - 1, T)
  <2>1. g \in [0..n - 1 -> T]
    OBVIOUS
  <2>2. \A s, t \in 0..n - 1 : g[s] = g[t] => s = t
    OBVIOUS
  <2>3. \A x \in T : \E s \in 0..n - 1 : g[s] = x
    OBVIOUS
  <2> QED
    BY <2>1, <2>2, <2>3, Fun_IsBij
<1>2. ExistsBijection(0..n - 1, T)
  BY <1>1 DEF ExistsBijection
<1>3. IsFiniteSet(0..n - 1) /\ Cardinality(0..n - 1) = n
  BY FS_Interval
<1> QED
  BY <1>2, <1>3, FS_Bijection

-----------------------------------------------------------------------------
(* Reads *)

(* A read takes at most as much as it asks for, and leaves the rest. *)
LEMMA TakenFromInbox ==
  ASSUME NEW s \in Seq(Unit), NEW n \in Nat
  PROVE  LET t == SubSeq(s, 1, Min({n, Len(s)})) IN
           /\ t \in Seq(Unit) /\ Len(t) <= n
           /\ SubSeq(s, Len(t) + 1, Len(s)) \in Seq(Unit)
<1> DEFINE m == Min({n, Len(s)})
           t == SubSeq(s, 1, m)
<1>1. Len(s) \in Nat /\ \A k \in 1..Len(s) : s[k] \in Unit
  BY LenProperties, ElementOfSeq
<1>2. m \in Nat /\ m <= n /\ m <= Len(s)
  <2>1. {n, Len(s)} \in SUBSET Nat /\ {n, Len(s)} # {}
    BY <1>1
  <2>2. m \in {n, Len(s)}
    BY <2>1, MinIsMember
  <2>3. PICK k \in {n, Len(s)} : k <= n /\ k <= Len(s)
    BY <1>1
  <2> QED
    BY <1>1, <2>2, <2>3 DEF Min
<1> HIDE DEF m
<1>3. t \in Seq(Unit) /\ Len(t) = m
  BY <1>1, <1>2, SubSeqProperties
<1>4. SubSeq(s, m + 1, Len(s)) \in Seq(Unit)
  BY <1>1, <1>2, SubSeqProperties
<1> QED
  BY <1>2, <1>3, <1>4 DEF m

-----------------------------------------------------------------------------
(* The invariant *)

(* The poller's arrays: in step, every socket once, the listener first,    *)
(* and a limit that is the capacity, so that they never grow.              *)
Arrays ==
  /\ Len(data) = Len(fds) /\ Len(fds) >= 1
  /\ \A j, k \in 1..Len(fds) : fds[j].fd = fds[k].fd => j = k
  /\ fds[1].fd = Listener
  /\ event_pos <= Len(fds)
  /\ fd_limit = MaxConnections /\ fd_capacity = MaxConnections
  /\ poller = "running"

Opened ==
  IF pc = "create" THEN open = {} /\ Len(fds) = 1 ELSE open = P!Registered

Own_data ==
  \A k \in 1..Len(fds) :
    fds[k].fd # Listener =>
      data[k] < connection_count /\ connections[data[k]].socket = fds[k].fd

(* The message is of the element that the sweep stands on. *)
Message ==
  /\ msg # None => /\ event_pos \in 0..Len(fds) - 1
                   /\ msg.socket = fds[event_pos + 1].fd
                   /\ msg.data = data[event_pos + 1]
  /\ pc \in {"message", "close", "recv", "parse"} => msg # None
  /\ pc \in {"close", "recv", "parse"} => msg.socket # Listener

(* A sweep that is told of the listener finds somebody to accept, though   *)
(* other messages are dealt with in between.                               *)
Expected ==
  /\ event_pos >= 1 /\ fds[1].revents # {} => backlog # <<>>
  /\ pc = "message" /\ msg.socket = Listener => backlog # <<>>

Inv ==
  /\ Arrays
  /\ Opened
  /\ Own_data
  /\ Message
  /\ Expected
  /\ QueueIsFresh(FALSE)

IInv ==
  /\ TypeOK
  /\ status = "running" => Inv
  /\ status = "closed" => open = {}

-----------------------------------------------------------------------------
(* What the invariant says of a step's arguments *)

FdRec == [fd : Fd, events : SUBSET {"in"}, revents : {{}} \cup P!Ready]

(* Indices and counts are numbers, the arrays sequences. *)
LEMMA Types ==
  ASSUME TypeOK
  PROVE  /\ MaxConnections \in Nat /\ MaxConnections >= 1 /\ Buffer \in Nat /\ Buffer >= 1
         /\ connection_count \in Nat /\ connection_count <= MaxConnections
         /\ fds \in Seq(FdRec) /\ Len(fds) \in Nat /\ \A k \in 1..Len(fds) : fds[k] \in FdRec
         /\ data \in Seq(0..MaxConnections) /\ Len(data) \in Nat
         /\ \A k \in 1..Len(data) : data[k] \in 0..MaxConnections
         /\ event_count \in Nat /\ event_pos \in Nat \cup {-1}
         /\ msg # None => msg.socket \in Fd /\ msg.data \in 0..MaxConnections
         /\ backlog \in Seq(Client) /\ Len(read) \in Nat
<1>1. fds \in Seq(FdRec) /\ data \in Seq(0..MaxConnections)
  BY DEF TypeOK, P!TypeOK, FdRec
<1>2. /\ Len(fds) \in Nat /\ \A k \in 1..Len(fds) : fds[k] \in FdRec
      /\ Len(data) \in Nat /\ \A k \in 1..Len(data) : data[k] \in 0..MaxConnections
  BY <1>1, LenProperties, ElementOfSeq
<1>3. Len(read) \in Nat /\ backlog \in Seq(Client)
  BY LenProperties DEF TypeOK, ClientsTypeOK
<1>4. /\ event_count \in Nat /\ event_pos \in Nat \cup {-1}
      /\ msg # None => msg.socket \in Fd /\ msg.data \in 0..MaxConnections
  BY DEF TypeOK, P!TypeOK
<1> QED
  BY <1>1, <1>2, <1>3, <1>4, ServerAssumption DEF TypeOK

(* Inside the handler of a message it is about the client at event_pos. *)
LEMMA MessageIsClient ==
  ASSUME IInv, status = "running", pc \in {"close", "recv", "parse"}
  PROVE  /\ fd \in Client /\ msg # None
         /\ event_pos + 1 \in 2..Len(fds) /\ fds[event_pos + 1].fd = fd
         /\ id \in Id /\ id < connection_count /\ connections[id].socket = fd
<1>1. TypeOK /\ Inv
  BY DEF IInv
<1>2. msg # None /\ fd # Listener /\ fd \in Fd
  BY <1>1, Types DEF Inv, Message, fd
<1>3. /\ event_pos \in 0..Len(fds) - 1 /\ fds[event_pos + 1].fd = fd
      /\ data[event_pos + 1] = id
  BY <1>1, <1>2 DEF Inv, Message, fd, id
<1>4. event_pos + 1 # 1
  BY <1>1, <1>2, <1>3 DEF Inv, Arrays
<1>5. event_pos + 1 \in 2..Len(fds)
  BY <1>1, <1>3, <1>4, Types
<1>6. id < connection_count /\ connections[id].socket = fd
  BY <1>1, <1>2, <1>3, <1>5 DEF Inv, Own_data
<1>7. id \in Nat
  BY <1>1, <1>2, Types DEF id
<1> QED
  BY <1>1, <1>2, <1>3, <1>5, <1>6, <1>7, Types DEF Fd, Id

(* What recv takes, what it leaves and what was read before are requests. *)
LEMMA InboxIsSeq ==
  ASSUME IInv, At("recv")
  PROVE  /\ fd \in Client /\ inbox[fd] \in Seq(Unit) /\ read \in Seq(Unit)
         /\ space_left \in Nat /\ Len(read) = Buffer - space_left
         /\ Taken \in Seq(Unit) /\ Len(Taken) <= space_left /\ Len(Taken) \in Nat
         /\ SubSeq(inbox[fd], Len(Taken) + 1, Len(inbox[fd])) \in Seq(Unit)
<1>1. TypeOK /\ fd \in Client
  BY MessageIsClient DEF IInv, At
<1>2. inbox[fd] \in Seq(Unit) /\ read \in Seq(Unit) /\ Len(read) <= Buffer
  BY <1>1 DEF TypeOK, ClientsTypeOK
<1>3. space_left \in Nat /\ Len(read) = Buffer - space_left
  BY <1>1, <1>2, Types DEF space_left
<1>4. /\ Taken \in Seq(Unit) /\ Len(Taken) <= space_left
      /\ SubSeq(inbox[fd], Len(Taken) + 1, Len(inbox[fd])) \in Seq(Unit)
  BY <1>2, <1>3, TakenFromInbox DEF Taken
<1> QED
  BY <1>1, <1>2, <1>3, <1>4, LenProperties

-----------------------------------------------------------------------------
(* Steps that leave the poller and the open descriptors alone *)

(* Steps that leave the poller, the table and the open sockets alone. *)
LEMMA SameInv ==
  ASSUME IInv, TypeOK', status = "running", status' = "running",
         UNCHANGED <<net_poller, connection_count, open>>,
         \A d \in Id : connections'[d].socket = connections[d].socket,
         backlog # <<>> => backlog' # <<>>, QueueIsFresh(FALSE)',
         \/ pc' = pc
         \/ /\ pc # "create" /\ pc' \notin {"create", "message"}
            /\ pc' \in {"close", "recv", "parse"} => msg # None /\ msg.socket # Listener
  PROVE  IInv'
<1>1. TypeOK /\ Inv
  BY DEF IInv
<1>2. UNCHANGED <<fds, data, fd_limit, fd_capacity, event_count, event_pos, msg, poller>>
  BY DEF net_poller
<1>3. P!Registered' = P!Registered
  BY <1>2 DEF P!Registered, P!fd_count
<1>4. Arrays'
  BY <1>1, <1>2 DEF Inv, Arrays
<1>5. Opened'
  BY <1>1, <1>2, <1>3 DEF Inv, Opened
<1>6. Own_data'
  <2> SUFFICES ASSUME NEW k \in 1..Len(fds), fds[k].fd # Listener
               PROVE  data[k] < connection_count /\ connections'[data[k]].socket = fds[k].fd
    BY <1>2 DEF Own_data
  <2>1. data[k] < connection_count /\ connections[data[k]].socket = fds[k].fd
    BY <1>1 DEF Inv, Own_data
  <2>2. data[k] \in 0..MaxConnections
    BY <1>1, Types DEF Inv, Arrays
  <2>3. data[k] \in Id
    BY <1>1, <2>1, <2>2, Types DEF Id
  <2> QED
    BY <2>1, <2>3
<1>7. Message'
  BY <1>1, <1>2 DEF Inv, Message
<1>8. Expected'
  BY <1>1, <1>2 DEF Inv, Expected
<1> QED
  BY <1>4, <1>5, <1>6, <1>7, <1>8 DEF IInv, Inv

\* Steps that end the program, but for `free`.
LEMMA Ends ==
  ASSUME TypeOK', status' \in {"failed", "undefined"}
  PROVE  IInv'
  BY DEF IInv

(* The clients that wait stay unconnected. *)
LEMMA QueueKept == ASSUME QueueIsFresh(FALSE), UNCHANGED <<backlog, open>> PROVE QueueIsFresh(FALSE)'
  BY DEF QueueIsFresh

LEMMA LoopInv == ASSUME IInv, loop \/ connection_event PROVE IInv'
<1>1. /\ TypeOK /\ Inv /\ status = "running" /\ status' = "running"
      /\ pc \in {"loop", "message"} /\ pc' \in {"wait", "free", "close", "recv"}
      /\ pc' \in {"close", "recv"} => pc = "message" /\ msg.socket # Listener
      /\ UNCHANGED <<table, read, net_poller, sockets, clients, running>>
  BY DEF IInv, loop, connection_event, At, Goto
<1>2. UNCHANGED <<connections, connection_count, backlog, open, inbox, eof, reset>>
  BY <1>1 DEF table, sockets
<1>3. TypeOK'
  BY <1>1, <1>2 DEF TypeOK, P!TypeOK, ClientsTypeOK, net_poller, clients
<1>4. msg # None \/ pc = "loop"
  BY <1>1 DEF Inv, Message
<1>5. QueueIsFresh(FALSE)'
  BY <1>1, <1>2, QueueKept DEF Inv
<1> QED
  BY <1>1, <1>2, <1>3, <1>4, <1>5, SameInv

LEMMA RecvInv == ASSUME IInv, recv PROVE IInv'
<1>1. /\ TypeOK /\ Inv /\ status = "running" /\ pc = "recv" /\ At("recv")
      /\ read' = read \o Taken
      /\ inbox' = [inbox EXCEPT ![fd] = SubSeq(@, Len(Taken) + 1, Len(@))]
      /\ UNCHANGED <<pc, table, running, net_poller, status, backlog, open, eof, reset, clients>>
  BY DEF IInv, recv, At
<1>2. inbox' \in [Client -> Seq(Unit)]
  BY <1>1, InboxIsSeq DEF TypeOK, ClientsTypeOK
<1>3. read' \in Seq(Unit) /\ Len(read') <= Buffer
  <2>1. read' \in Seq(Unit) /\ Len(read') = Len(read) + Len(Taken)
    BY <1>1, InboxIsSeq, ConcatProperties
  <2> QED
    BY <1>1, <2>1, InboxIsSeq, Types
<1>4. TypeOK'
  BY <1>1, <1>2, <1>3 DEF TypeOK, P!TypeOK, ClientsTypeOK, table, net_poller, clients
<1>5. QueueIsFresh(FALSE)'
  BY <1>1, QueueKept DEF Inv
<1> QED
  BY <1>1, <1>4, <1>5, SameInv DEF table

LEMMA RecvFailedInv == ASSUME IInv, recv_failed PROVE IInv'
<1>1. TypeOK'
  BY DEF recv_failed, Exit, IInv, TypeOK, P!TypeOK, ClientsTypeOK, table, net_poller,
         sockets, clients
<1> QED
  BY <1>1, Ends DEF recv_failed, Exit

LEMMA RecvOverInv == ASSUME IInv, recv_over PROVE IInv'
<1>1. /\ TypeOK /\ Inv /\ status = "running" /\ status' = "running" /\ pc = "recv"
      /\ pc' \in {"close", "parse"} /\ msg # None /\ msg.socket # Listener
      /\ UNCHANGED <<table, read, net_poller, sockets, clients, running>>
  BY DEF IInv, recv_over, At, Goto, Inv, Message
<1>2. UNCHANGED <<connections, connection_count, backlog, open, inbox, eof, reset>>
  BY <1>1 DEF table, sockets
<1>3. TypeOK'
  BY <1>1, <1>2 DEF TypeOK, P!TypeOK, ClientsTypeOK, net_poller, clients
<1>4. QueueIsFresh(FALSE)'
  BY <1>1, <1>2, QueueKept DEF Inv
<1> QED
  BY <1>1, <1>2, <1>3, <1>4, SameInv

(* Parsing changes no more of the table than its connection's state. *)
LEMMA ParseInv == ASSUME IInv, parse_request PROVE IInv'
<1>1. /\ TypeOK /\ Inv /\ status = "running" /\ pc = "parse" /\ read' = <<>>
      /\ UNCHANGED <<connection_count, net_poller, sockets, clients>>
      /\ UNCHANGED <<backlog, open>>
  BY DEF IInv, parse_request, At, sockets
<1>2. \/ UNCHANGED connections \/ Becomes("Headers") \/ Becomes("Body")
  BY DEF parse_request
<1>3. /\ connections' \in [Id -> [socket : Client \cup {Nobody}, state : ParseState]]
      /\ \A d \in Id : connections'[d].socket = connections[d].socket
  BY <1>1, <1>2 DEF TypeOK, Becomes, ParseState
<1>4. /\ running' = running
      /\ \/ pc' \in {"sweep", "headers"} /\ status' = status
         \/ pc' = pc /\ status' = "failed"
  BY DEF parse_request, Goto, Exit
<1>5. TypeOK'
  <2>1. read' \in Seq(Unit) /\ Len(read') <= Buffer
    BY <1>1, EmptySeq, Types
  <2> QED
    BY <1>1, <1>3, <1>4, <2>1 DEF TypeOK, P!TypeOK, ClientsTypeOK, net_poller, sockets, clients
<1>6. QueueIsFresh(FALSE)'
  BY <1>1, QueueKept DEF Inv
<1>7. CASE status' = "failed"
  BY <1>5, <1>7, Ends
<1>8. CASE status' = status /\ pc' \in {"sweep", "headers"}
  BY <1>1, <1>3, <1>5, <1>6, <1>8, SameInv
<1> QED
  BY <1>4, <1>7, <1>8

LEMMA HandlerInv == ASSUME IInv, close_handler PROVE IInv'
<1>1. /\ TypeOK /\ Inv /\ status = "running" /\ running' = FALSE
      /\ UNCHANGED <<pc, connections, connection_count, read, net_poller, status>>
      /\ UNCHANGED <<sockets, clients>> /\ UNCHANGED <<backlog, open>>
  BY DEF IInv, close_handler, main, table, sockets
<1>2. TypeOK'
  BY <1>1 DEF TypeOK, P!TypeOK, ClientsTypeOK, net_poller, sockets, clients
<1>3. QueueIsFresh(FALSE)'
  BY <1>1, QueueKept DEF Inv
<1> QED
  BY <1>1, <1>2, <1>3, SameInv

(* No client breaks the invariant. *)
LEMMA ClientInv ==
  ASSUME IInv, NEW c \in Client, Client_step(c), UNCHANGED <<main, running, net_poller>>
  PROVE  IInv'
<1>1. /\ TypeOK /\ ClientsTypeOK /\ Client_step(c)
      /\ UNCHANGED <<pc, connections, connection_count, read, running, net_poller>>
  BY DEF IInv, TypeOK, main, table, Client_step
<1>2. status = "running" /\ status' = "running"
  BY DEF Client_step, Connect, Begin, Send, Close, Reset, Talking
<1>3. Inv
  BY <1>2 DEF IInv
<1>4. /\ open' = open /\ QueueIsFresh(FALSE)' /\ (backlog # <<>> => backlog' # <<>>)
  <2>1. QueueIsFresh(FALSE)
    BY <1>3 DEF Inv
  <2> QED
    BY <1>1, <2>1, ClientStepQueue
<1>5. TypeOK'
  <2>1. ClientsTypeOK'
    BY <1>1, ClientStepType
  <2> QED
    BY <1>1, <2>1 DEF TypeOK, P!TypeOK, net_poller
<1> QED
  BY <1>1, <1>2, <1>4, <1>5, SameInv

-----------------------------------------------------------------------------
(* The start *)

(* main at its start. *)
LEMMA InitInv == Init => IInv
<1> SUFFICES ASSUME Init PROVE IInv
  OBVIOUS
<1> DEFINE s == << [fd |-> Listener, info |-> ListenerInfo] >>
<1>1. P!net_poller_create(s, MaxConnections)
  BY DEF Init, P!Init
<1>2. MaxConnections \in Nat /\ MaxConnections # 0 /\ Buffer \in Nat
  BY ServerAssumption
<1>3. /\ fds = <<[fd |-> Listener, events |-> {"in"}, revents |-> {}]>> /\ data = <<0>>
      /\ fd_limit = MaxConnections /\ fd_capacity = MaxConnections
      /\ event_count = 0 /\ event_pos = -1 /\ msg = None /\ poller = "running"
  BY <1>1, <1>2 DEF P!net_poller_create, P!NET_POLLER_NOLIMIT, ListenerInfo, Interest
<1>4. P!TypeOK
  BY <1>2, <1>3 DEF P!TypeOK, Fd
<1>5. ClientsTypeOK
  BY WebClientsAssumption, EmptySeq DEF Init, ClientsInit, ClientsTypeOK
<1>6. TypeOK
  BY <1>2, <1>4, <1>5, EmptySeq DEF Init, TypeOK, ParseState
<1>7. pc = "create" /\ open = {} /\ backlog = <<>> /\ status = "running"
  BY DEF Init, ClientsInit
<1>8. QueueIsFresh(FALSE)
  BY <1>7 DEF QueueIsFresh
<1>9. Inv
  <2>1. Len(fds) = 1 /\ Len(data) = 1 /\ fds[1].fd = Listener
    BY <1>3
  <2>2. Arrays
    BY <1>3, <2>1 DEF Arrays
  <2>3. Opened /\ Own_data
    BY <1>7, <2>1 DEF Opened, Own_data
  <2>4. Message /\ Expected
    BY <1>3, <1>7 DEF Message, Expected
  <2> QED
    BY <1>8, <2>2, <2>3, <2>4 DEF Inv
<1> QED
  BY <1>6, <1>7, <1>9 DEF IInv

LEMMA CreateInv == ASSUME IInv, create PROVE IInv'
<1>1. /\ TypeOK /\ Inv /\ status = "running" /\ pc = "create"
      /\ UNCHANGED <<table, read, net_poller, backlog, inbox, eof, reset, clients>>
      /\ UNCHANGED <<connections, connection_count>>
      /\ UNCHANGED <<fds, data, fd_limit, fd_capacity, event_count, event_pos, msg, poller>>
  BY DEF IInv, create, At, table, net_poller
<1>2. CASE UNCHANGED open /\ Exit("failed")
  <2>1. TypeOK'
    BY <1>1, <1>2 DEF TypeOK, P!TypeOK, ClientsTypeOK, clients, Exit
  <2> QED
    BY <1>2, <2>1, Ends DEF Exit
<1>3. CASE open' = {Listener} /\ Goto("loop")
  <2>1. TypeOK'
    BY <1>1, <1>3 DEF TypeOK, P!TypeOK, ClientsTypeOK, clients, Goto, Fd
  <2>2. P!Registered' = {Listener}
    BY <1>1 DEF Inv, Arrays, Opened, P!Registered, P!fd_count
  <2>3. QueueIsFresh(FALSE)'
    <3>1. \A k \in 1..Len(backlog) : backlog[k] \in Client
      BY <1>1, Types, ElementOfSeq
    <3> QED
      BY <1>1, <1>3, <3>1, WebClientsAssumption DEF QueueIsFresh, Inv
  <2>4. Arrays' /\ Opened' /\ Own_data'
    BY <1>1, <1>3, <2>2 DEF Inv, Arrays, Opened, Own_data, Goto
  <2>5. Message' /\ Expected'
    BY <1>1, <1>3 DEF Inv, Message, Expected, Goto
  <2> QED
    BY <1>1, <1>3, <2>1, <2>3, <2>4, <2>5 DEF IInv, Inv, Goto
<1> QED
  BY <1>2, <1>3 DEF create

-----------------------------------------------------------------------------
(* Waits and sweeps *)

(* What a call of poll leaves as it was. *)
LEMMA WaitedInv ==
  ASSUME IInv, At("wait"), NEW revents \in [1..Len(fds) -> {{}} \cup P!Ready],
         fds' = [k \in 1..Len(fds) |-> [fds[k] EXCEPT !.revents = revents[k]]],
         revents[1] # {} => backlog # <<>>,
         event_count' \in Nat, event_pos' \in {-1, Len(fds)},
         UNCHANGED <<data, fd_limit, fd_capacity, msg, poller>>,
         event_pos = -1, pc' \in {"loop", "sweep", "free"},
         UNCHANGED <<status, running, table, read, sockets, clients>>
  PROVE  IInv'
<1>1. /\ TypeOK /\ Inv /\ pc = "wait" /\ status = "running"
      /\ UNCHANGED <<connections, connection_count, backlog, open>>
  BY DEF IInv, At, table, sockets
<1>2. /\ fds \in Seq(FdRec) /\ Len(fds) \in Nat /\ Len(fds) >= 1
      /\ \A k \in 1..Len(fds) : fds[k] \in FdRec
  BY <1>1, Types DEF Inv, Arrays
<1>3. /\ fds' \in [1..Len(fds) -> FdRec]
      /\ \A k \in 1..Len(fds) : fds'[k].fd = fds[k].fd /\ fds'[k].revents = revents[k]
  BY <1>2 DEF FdRec
<1>4. fds' \in Seq(FdRec) /\ Len(fds') = Len(fds)
  BY <1>2, <1>3
<1>5. TypeOK'
  <2>1. P!TypeOK'
    BY <1>1, <1>2, <1>4 DEF TypeOK, P!TypeOK, FdRec
  <2> QED
    BY <1>1, <2>1 DEF TypeOK, ClientsTypeOK, sockets, clients
<1>6. Arrays'
  <2>1. Arrays /\ Len(fds) >= 1
    BY <1>1, <1>2 DEF Inv
  <2>2. fds'[1].fd = fds[1].fd /\ event_pos' <= Len(fds)
    BY <1>2, <1>3
  <2> QED
    BY <1>3, <1>4, <2>1, <2>2 DEF Arrays
<1>7. Opened'
  <2>1. P!Registered' = P!Registered
    BY <1>3, <1>4 DEF P!Registered, P!fd_count
  <2> QED
    BY <1>1, <2>1 DEF Inv, Opened
<1>8. Own_data'
  BY <1>1, <1>3, <1>4 DEF Inv, Own_data
<1>9. Message'
  BY <1>1 DEF Inv, Message
<1>10. Expected'
  BY <1>1, <1>2, <1>3 DEF Expected
<1>11. QueueIsFresh(FALSE)'
  BY <1>1, QueueKept DEF Inv
<1> QED
  BY <1>1, <1>5, <1>6, <1>7, <1>8, <1>9, <1>10, <1>11 DEF IInv, Inv

LEMMA WaitNothingInv == ASSUME IInv, wait_nothing \/ wait_error PROVE IInv'
<1> DEFINE none == [k \in 1..Len(fds) |-> {}]
<1>1. /\ At("wait") /\ P!net_poller_wait_Nothing /\ pc' \in {"loop", "free"}
      /\ UNCHANGED <<status, running, table, read, sockets, clients>>
  BY DEF wait_nothing, wait_error, Goto
<1>2. none \in [1..Len(fds) -> {{}} \cup P!Ready]
  OBVIOUS
<1>3. fds' = [k \in 1..Len(fds) |-> [fds[k] EXCEPT !.revents = none[k]]]
  BY <1>1 DEF P!net_poller_wait_Nothing, P!fd_count
<1>4. /\ event_pos = -1
      /\ UNCHANGED <<data, fd_limit, fd_capacity, event_count, event_pos, msg, poller>>
  BY <1>1 DEF P!net_poller_wait_Nothing
<1>5. none[1] = {} /\ event_count \in Nat
  BY <1>1, Types DEF IInv, Inv, Arrays, At
<1> HIDE DEF none
<1> QED
  BY <1>1, <1>2, <1>3, <1>4, <1>5, WaitedInv

(* The instance has operators of its own for what module FiniteSets has. *)
LEMMA SameCardinality == \A S : P!Cardinality(S) = Cardinality(S)
  BY DEF P!Cardinality, Cardinality, P!IsFiniteSet, IsFiniteSet

LEMMA WaitEventInv == ASSUME IInv, wait_event PROVE IInv'
<1> DEFINE found == [k \in 1..Len(fds) |-> Found_on(fds[k].fd)]
           ready == {k \in 1..Len(fds) : found[k] # {}}
<1>1. /\ TypeOK /\ Inv /\ At("wait") /\ P!net_poller_wait_Event(found)
      /\ pc' \in {"sweep", "free"}
      /\ UNCHANGED <<status, running, table, read, sockets, clients>>
  BY DEF wait_event, At, Goto, IInv, P!fd_count
<1>2. found \in [1..Len(fds) -> {{}} \cup P!Ready]
  <2>1. \A s : Found_on(s) \in SUBSET ({"in"} \cup {"err"})
    BY DEF Found_on, Interest
  <2> QED
    BY <2>1 DEF P!Ready
<1>3. /\ fds' = [k \in 1..Len(fds) |-> [fds[k] EXCEPT !.revents = found[k]]]
      /\ event_count' = Cardinality(ready)
      /\ event_pos = -1 /\ event_pos' = Len(fds)
      /\ UNCHANGED <<data, fd_limit, fd_capacity, msg, poller>>
  <2>1. /\ P!Polled(found)
        /\ event_pos = -1 /\ event_pos' = Len(fds)
        /\ UNCHANGED <<data, fd_limit, fd_capacity, msg, poller>>
    BY <1>1 DEF P!net_poller_wait_Event, P!fd_count
  <2> HIDE DEF found
  <2>2. /\ fds' = [k \in 1..Len(fds) |-> [fds[k] EXCEPT !.revents = found[k]]]
        /\ event_count' = Cardinality(ready)
    BY <2>1, SameCardinality DEF P!Polled, P!fd_count
  <2> QED
    BY <2>1, <2>2
<1>4. event_count' \in Nat
  <2>1. IsFiniteSet(1..Len(fds))
    BY <1>1, Types, FS_Interval
  <2>2. IsFiniteSet(ready)
    BY <2>1, FS_Subset
  <2> QED
    BY <1>3, <2>2, FS_CardinalityType
<1>5. found[1] # {} => backlog # <<>>
  <2>1. found[1] = Found_on(Listener)
    BY <1>1, Types DEF Inv, Arrays
  <2>2. Found_on(Listener) # {} => Readable(Listener)
    BY DEF Found_on, Interest
  <2> QED
    BY <2>1, <2>2 DEF Readable
<1> HIDE DEF found
<1> QED
  BY <1>1, <1>2, <1>3, <1>4, <1>5, WaitedInv

LEMMA NextInv == ASSUME IInv, next PROVE IInv'
<1>1. /\ TypeOK /\ Inv /\ pc = "sweep" /\ status = "running" /\ status' = "running"
      /\ P!net_poller_next
      /\ pc' = IF msg' = None THEN "loop" ELSE "message"
      /\ UNCHANGED <<running, table, read, sockets, clients>>
      /\ UNCHANGED <<connections, connection_count, backlog, open>>
  BY DEF next, At, Goto, IInv, table, sockets
<1>2. /\ event_pos >= 0
      /\ UNCHANGED <<fds, data, fd_limit, fd_capacity, poller>>
  BY <1>1 DEF P!net_poller_next
<1>3. QueueIsFresh(FALSE)'
  BY <1>1, QueueKept DEF Inv
<1>4. Opened'
  <2>1. P!Registered' = P!Registered
    BY <1>2 DEF P!Registered, P!fd_count
  <2> QED
    BY <1>1, <2>1 DEF Inv, Opened
<1>5. Own_data'
  BY <1>1, <1>2 DEF Inv, Own_data
<1>6. CASE msg' = None /\ event_pos' = -1 /\ event_count' = event_count
  <2>1. TypeOK'
    <3>1. P!TypeOK'
      BY <1>1, <1>2, <1>6 DEF TypeOK, P!TypeOK
    <3> QED
      BY <1>1, <1>6, <3>1 DEF TypeOK, ClientsTypeOK, sockets, clients
  <2>2. Arrays' /\ Message' /\ Expected'
    BY <1>1, <1>2, <1>6, Types DEF Inv, Arrays, Message, Expected
  <2> QED
    BY <1>1, <1>3, <1>4, <1>5, <2>1, <2>2 DEF IInv, Inv
<1>7. ASSUME NEW k \in P!Found,
             msg' = [socket |-> P!Fd(k).fd, events |-> P!Fd(k).revents, data |-> P!Datum(k)],
             event_pos' = k, event_count' = event_count - 1
      PROVE  IInv'
  <2>1. event_count > 0 /\ k \in 0..event_pos - 1 /\ fds[k + 1].revents # {}
    BY <1>7 DEF P!Found, P!Ready_below, P!Fd
  <2>2. /\ k + 1 \in 1..Len(fds) /\ k \in Nat /\ k < event_pos /\ event_pos <= Len(fds)
        /\ event_pos >= 1 /\ (k >= 1 \/ k = 0)
        /\ Len(data) = Len(fds) /\ event_count \in Nat
    <3>1. /\ Len(data) = Len(fds) /\ event_pos <= Len(fds)
          /\ Len(fds) \in Nat /\ event_pos \in Nat /\ event_count \in Nat
      BY <1>1, <1>2, Types DEF Inv, Arrays
    <3> QED
      BY <2>1, <3>1
  <2>3. /\ msg' = [socket |-> fds[k + 1].fd, events |-> fds[k + 1].revents, data |-> data[k + 1]]
        /\ fds[k + 1] \in FdRec /\ data[k + 1] \in 0..MaxConnections
    BY <1>1, <1>7, <2>2, Types DEF P!Fd, P!Datum
  <2>4. P!TypeOK'
    <3>1. msg' \in [socket : Fd, events : P!Ready, data : 0..MaxConnections]
      BY <2>1, <2>3 DEF FdRec
    <3>2. event_count' \in Nat /\ event_pos' \in Nat
      BY <1>7, <2>1, <2>2
    <3> QED
      BY <1>1, <1>2, <3>1, <3>2 DEF TypeOK, P!TypeOK
  <2>5. TypeOK'
    BY <1>1, <2>4 DEF TypeOK, ClientsTypeOK, sockets, clients
  <2>6. Arrays' /\ Message'
    BY <1>1, <1>2, <1>7, <2>2, <2>3 DEF Inv, Arrays, Message
  <2>7. Expected'
    <3>1. k + 1 = 1 => backlog # <<>>
      BY <1>1, <2>1, <2>2 DEF Inv, Expected
    <3>2. msg'.socket = Listener => k + 1 = 1
      <4>1. /\ fds[1].fd = Listener /\ 1 \in 1..Len(fds)
            /\ \A i, j \in 1..Len(fds) : fds[i].fd = fds[j].fd => i = j
        BY <1>1, <2>2 DEF Inv, Arrays
      <4> QED
        BY <2>2, <2>3, <4>1
    <3>3. event_pos' >= 1 /\ fds'[1].revents # {} => backlog # <<>>
      BY <1>1, <1>2, <1>7, <2>2 DEF Inv, Expected
    <3> QED
      BY <1>1, <3>1, <3>2, <3>3 DEF Expected
  <2> QED
    BY <1>1, <1>3, <1>4, <1>5, <2>5, <2>6, <2>7 DEF IInv, Inv
<1> QED
  BY <1>1, <1>6, <1>7 DEF P!net_poller_next, P!Exhausted

-----------------------------------------------------------------------------
(* Accepting and closing *)

(* A message of the listener is dealt with in its own element, the first,  *)
(* and finds a connection to accept, which no element is of.               *)
LEMMA AcceptInv == ASSUME IInv, accept PROVE IInv'
<1> DEFINE conn == Head(backlog)
<1>1. /\ TypeOK /\ Inv /\ pc = "message" /\ status = "running" /\ msg.socket = Listener
      /\ open' = open \cup {conn} /\ backlog' = Tail(backlog)
      /\ P!net_poller_add(conn, [events |-> Interest, data |-> connection_count])
      /\ UNCHANGED <<read, inbox, eof, reset, clients>>
  BY DEF accept, At, IInv, New_id
<1>2. backlog # <<>>
  BY <1>1 DEF Inv, Expected
<1>3. /\ conn \in Client /\ Tail(backlog) \in Seq(Client)
      /\ QueueIsFresh(FALSE)' /\ conn \notin open
  <2>1. QueueIsFresh(FALSE) /\ ClientsTypeOK
    BY <1>1 DEF Inv, TypeOK
  <2> QED
    BY <1>1, <1>2, <2>1, TailIsFresh, HeadTailProperties DEF ClientsTypeOK
<1>4. msg # None /\ event_pos = 0
  <2>1. msg # None /\ event_pos \in 0..Len(fds) - 1 /\ fds[event_pos + 1].fd = Listener
    BY <1>1 DEF Inv, Message
  <2>2. event_pos + 1 \in 1..Len(fds) /\ 1 \in 1..Len(fds)
    BY <1>1, <2>1, Types DEF Inv, Arrays
  <2>3. event_pos + 1 = 1
    BY <1>1, <2>1, <2>2 DEF Inv, Arrays
  <2> QED
    BY <2>1, <2>3
<1>5. UNCHANGED <<fd_limit, event_count, event_pos, msg>>
  BY <1>1 DEF P!net_poller_add
<1>6. ClientsTypeOK'
  <2>1. status' \in {"running", "failed", "undefined"}
    BY <1>1 DEF accept, Exit, Goto
  <2> QED
    BY <1>1, <1>3, <2>1 DEF TypeOK, ClientsTypeOK, clients, Fd
<1>7. CASE poller' = "limit" /\ UNCHANGED <<fds, data, fd_capacity>>
  <2>1. status' = "failed" /\ UNCHANGED <<pc, running, connections, connection_count>>
    BY <1>7 DEF accept, Exit, table
  <2>2. TypeOK'
    BY <1>1, <1>5, <1>6, <1>7, <2>1 DEF TypeOK, P!TypeOK
  <2> QED
    BY <2>1, <2>2, Ends
<1>8. CASE Len(fds) < fd_capacity /\ UNCHANGED <<fd_capacity, poller>>
           /\ P!Stored(conn, [events |-> Interest, data |-> connection_count])
  <2> DEFINE n == Len(fds)
             r == [fd |-> conn, events |-> {"in"}, revents |-> {}]
  <2>1. /\ fds' = Append(fds, r) /\ data' = Append(data, connection_count)
    BY <1>8 DEF P!Stored, Interest
  <2>2. r \in FdRec /\ connection_count \in 0..MaxConnections
    BY <1>1, <1>3, Types DEF FdRec, Fd
  <2>3. /\ fds \in Seq(FdRec) /\ data \in Seq(0..MaxConnections)
        /\ n \in Nat /\ n >= 1 /\ Len(data) = n
    BY <1>1, Types DEF Inv, Arrays
  <2>4. /\ fds' \in Seq(FdRec) /\ Len(fds') = n + 1 /\ fds'[n + 1] = r
        /\ data' \in Seq(0..MaxConnections) /\ Len(data') = n + 1
        /\ data'[n + 1] = connection_count
        /\ \A k \in 1..n : fds'[k] = fds[k] /\ data'[k] = data[k]
    <3> HIDE DEF r
    <3> QED
      BY <2>1, <2>2, <2>3, AppendProperties
  <2>5. P!TypeOK'
    BY <1>1, <1>5, <1>8, <2>4 DEF TypeOK, P!TypeOK, FdRec
  <2>6. CASE connection_count = MaxConnections
    <3>1. status' = "undefined" /\ UNCHANGED <<pc, running, connections, connection_count>>
      BY <1>1, <1>8, <2>6 DEF accept, Exit, table, Inv, Arrays
    <3>2. TypeOK'
      BY <1>1, <1>6, <2>5, <3>1 DEF TypeOK
    <3> QED
      BY <3>1, <3>2, Ends
  <2>7. CASE connection_count # MaxConnections
    <3>1. /\ connections' = [ connections EXCEPT ![connection_count] =
                                [socket |-> conn, state |-> "RequestLine"] ]
          /\ connection_count' = connection_count + 1
          /\ pc' = "sweep" /\ UNCHANGED <<status, running>>
      BY <1>1, <1>8, <2>7 DEF accept, Goto, Inv, Arrays
    <3>2. connection_count \in Id /\ connection_count \in Nat
      BY <1>1, <2>7, Types DEF Id
    <3>3. TypeOK'
      <4>1. connections' \in [Id -> [socket : Client \cup {Nobody}, state : ParseState]]
        BY <1>1, <1>3, <3>1 DEF TypeOK, ParseState
      <4>2. connection_count' \in 0..MaxConnections
        BY <1>1, <2>7, <3>1, Types
      <4> QED
        BY <1>1, <1>6, <2>5, <3>1, <4>1, <4>2 DEF TypeOK
    <3>4. /\ connections'[connection_count].socket = conn
          /\ \A d \in Id : d # connection_count => connections'[d] = connections[d]
      BY <1>1, <3>1, <3>2 DEF TypeOK
    <3>5. open = {fds[k].fd : k \in 1..n}
      BY <1>1 DEF Inv, Opened, P!Registered, P!fd_count
    <3>6. Arrays'
      <4>1. Arrays /\ \A k \in 1..n : fds[k].fd # conn
        BY <1>1, <1>3, <3>5 DEF Inv
      <4>2. \A j, k \in 1..n + 1 : fds'[j].fd = fds'[k].fd => j = k
        BY <2>3, <2>4, <4>1 DEF Arrays
      <4>3. fds'[1].fd = Listener /\ event_pos' <= n + 1
        BY <1>4, <1>5, <2>3, <2>4, <4>1 DEF Arrays
      <4> QED
        BY <1>5, <1>8, <2>3, <2>4, <4>1, <4>2, <4>3 DEF Arrays
    <3>7. Opened'
      <4>1. P!Registered' = {fds'[k].fd : k \in 1..n + 1}
        BY <2>4 DEF P!Registered, P!fd_count
      <4>2. {fds'[k].fd : k \in 1..n + 1} = {fds[k].fd : k \in 1..n} \cup {conn}
        <5>1. /\ \A k \in 1..n : fds'[k].fd = fds[k].fd
              /\ fds'[n + 1].fd = conn
          BY <2>4
        <5>2. 1..n + 1 = 1..n \cup {n + 1}
          BY <2>3
        <5> QED
          BY <5>1, <5>2, Zenon
      <4> QED
        BY <1>1, <3>1, <3>5, <4>1, <4>2 DEF Opened
    <3>8. Own_data'
      <4> SUFFICES ASSUME NEW k \in 1..n + 1, fds'[k].fd # Listener
                   PROVE  /\ data'[k] < connection_count'
                          /\ connections'[data'[k]].socket = fds'[k].fd
        BY <2>4 DEF Own_data
      <4>1. CASE k = n + 1
        BY <2>4, <3>1, <3>2, <3>4, <4>1
      <4>2. CASE k # n + 1
        <5>1. k \in 1..n /\ fds'[k] = fds[k] /\ data'[k] = data[k]
          BY <2>3, <2>4, <4>2
        <5>2. data[k] < connection_count /\ connections[data[k]].socket = fds[k].fd
          BY <1>1, <5>1 DEF Inv, Own_data
        <5>3. data[k] \in 0..MaxConnections
          BY <2>3, <5>1, ElementOfSeq
        <5>4. data[k] \in Id /\ data[k] # connection_count /\ data[k] < connection_count + 1
          BY <3>2, <5>2, <5>3, ServerAssumption DEF Id
        <5> QED
          BY <3>1, <3>4, <5>1, <5>2, <5>4
      <4> QED
        BY <4>1, <4>2
    <3>9. Message'
      BY <1>1, <1>4, <1>5, <2>3, <2>4, <3>1 DEF Inv, Message
    <3>10. Expected'
      BY <1>4, <1>5, <3>1 DEF Expected
    <3> QED
      BY <1>1, <1>3, <3>1, <3>3, <3>6, <3>7, <3>8, <3>9, <3>10 DEF IInv, Inv
  <2> QED
    BY <2>6, <2>7
<1> QED
  <2>1. fd_limit = fd_capacity /\ fd_limit # 0
    BY <1>1, Types DEF Inv, Arrays
  <2> QED
    BY <1>1, <1>7, <1>8, <2>1 DEF P!net_poller_add, P!fd_count, P!NET_POLLER_NOLIMIT

(* The last element fills the hole of the one removed, in both arrays; the *)
(* hole is never the listener's.                                           *)
LEMMA CloseInv == ASSUME IInv, close PROVE IInv'
<1> DEFINE n == Len(fds)
           hole == event_pos + 1
           Source(k) == IF k = hole THEN n ELSE k
<1>1. /\ TypeOK /\ Inv /\ pc = "close" /\ pc' = "sweep" /\ status = "running"
      /\ Disconnected({fd}) /\ P!net_poller_remove_this
      /\ UNCHANGED <<status, running, connections, connection_count, read>>
      /\ open' = open \ {fd} /\ UNCHANGED backlog
  BY DEF close, At, Goto, IInv, table, fd, Disconnected
<1>2. /\ fd \in Client /\ msg # None /\ hole \in 2..n /\ fds[hole].fd = fd
  BY <1>1, MessageIsClient
<1>3. /\ fds \in Seq(FdRec) /\ data \in Seq(0..MaxConnections)
      /\ n \in Nat /\ n >= 2 /\ Len(data) = n
      /\ \A k \in 1..n : fds[k] \in FdRec /\ data[k] \in 0..MaxConnections
      /\ \A j, k \in 1..n : fds[j].fd = fds[k].fd => j = k
      /\ fds[1].fd = Listener /\ event_pos \in Int
  <2>1. /\ Len(data) = n /\ fds[1].fd = Listener
        /\ \A j, k \in 1..n : fds[j].fd = fds[k].fd => j = k
    BY <1>1 DEF Inv, Arrays
  <2>2. /\ fds \in Seq(FdRec) /\ data \in Seq(0..MaxConnections) /\ n \in Nat
        /\ \A k \in 1..n : fds[k] \in FdRec
        /\ \A k \in 1..Len(data) : data[k] \in 0..MaxConnections
        /\ event_pos \in Int
    BY <1>1, Types
  <2> QED
    BY <1>2, <2>1, <2>2
<1>4. /\ fds' = [k \in 1..n - 1 |-> fds[Source(k)]]
      /\ data' = [k \in 1..n - 1 |-> data[Source(k)]]
      /\ msg' = None
      /\ UNCHANGED <<fd_limit, fd_capacity, event_count, event_pos, poller>>
  <2>1. /\ fds' = P!Filled(fds) /\ data' = P!Filled(data) /\ msg' = None
        /\ UNCHANGED <<fd_limit, fd_capacity, event_count, event_pos, poller>>
    BY <1>1 DEF P!net_poller_remove_this
  <2>2. P!Filled(fds) = [k \in 1..n - 1 |-> fds[Source(k)]]
    BY DEF P!Filled, P!fd_count
  <2>3. P!Filled(data) = [k \in 1..n - 1 |-> data[Source(k)]]
    BY DEF P!Filled, P!fd_count
  <2> QED
    BY <2>1, <2>2, <2>3
<1>5. /\ \A k \in 1..n - 1 : Source(k) \in 1..n /\ Source(k) # hole
      /\ \A j, k \in 1..n - 1 : Source(j) = Source(k) => j = k
      /\ \A k \in (1..n) \ {hole} : \E j \in 1..n - 1 : Source(j) = k
      /\ Source(1) = 1
  <2>1. \A k \in 1..n - 1 : Source(k) \in 1..n /\ Source(k) # hole
    BY <1>2, <1>3
  <2>2. \A j, k \in 1..n - 1 : Source(j) = Source(k) => j = k
    BY <1>2, <1>3
  <2>3. ASSUME NEW k \in (1..n) \ {hole}
        PROVE  \E j \in 1..n - 1 : Source(j) = k
    <3>1. CASE k = n
      <4>1. hole \in 1..n - 1 /\ Source(hole) = k
        BY <1>2, <1>3, <2>3, <3>1
      <4> QED
        BY <4>1
    <3>2. CASE k # n
      <4>1. k \in 1..n - 1 /\ Source(k) = k
        BY <1>3, <2>3, <3>2
      <4> QED
        BY <4>1
    <3> QED
      BY <3>1, <3>2
  <2>4. Source(1) = 1
    BY <1>2
  <2> QED
    BY <2>1, <2>2, <2>3, <2>4
<1> HIDE DEF Source
<1>6. /\ fds' \in Seq(FdRec) /\ Len(fds') = n - 1
      /\ data' \in Seq(0..MaxConnections) /\ Len(data') = n - 1
      /\ \A k \in 1..n - 1 : fds'[k] = fds[Source(k)] /\ data'[k] = data[Source(k)]
  <2>1. n - 1 \in Nat
    BY <1>3
  <2>2. \A k \in 1..n - 1 : fds[Source(k)] \in FdRec /\ data[Source(k)] \in 0..MaxConnections
    BY <1>3, <1>5
  <2>3. /\ fds' \in [1..n - 1 -> FdRec]
        /\ \A k \in 1..n - 1 : fds'[k] = fds[Source(k)]
    BY <1>4, <2>2
  <2>4. /\ data' \in [1..n - 1 -> 0..MaxConnections]
        /\ \A k \in 1..n - 1 : data'[k] = data[Source(k)]
    BY <1>4, <2>2
  <2>5. fds' \in Seq(FdRec) /\ Len(fds') = n - 1
    BY <2>1, <2>3, FunctionIsSeq
  <2>6. data' \in Seq(0..MaxConnections) /\ Len(data') = n - 1
    BY <2>1, <2>4, FunctionIsSeq
  <2> QED
    BY <2>3, <2>4, <2>5, <2>6
<1>7. fds'[1] = fds[1]
  <2>1. 1 \in 1..n - 1
    BY <1>3
  <2> QED
    BY <1>5, <1>6, <2>1
<1>8. TypeOK'
  <2>1. ClientsTypeOK'
    BY <1>1, DisconnectedType DEF TypeOK, ClientsTypeOK
  <2>2. P!TypeOK'
    BY <1>1, <1>4, <1>6 DEF TypeOK, P!TypeOK, FdRec
  <2> QED
    BY <1>1, <2>1, <2>2 DEF TypeOK
<1>9. Arrays'
  <2>1. ASSUME NEW j \in 1..n - 1, NEW k \in 1..n - 1, fds'[j].fd = fds'[k].fd
        PROVE  j = k
    <3>1. fds[Source(j)].fd = fds[Source(k)].fd
      BY <1>6, <2>1
    <3>2. Source(j) = Source(k)
      BY <1>3, <1>5, <3>1
    <3> QED
      BY <1>5, <3>2
  <2>2. fds'[1].fd = Listener
    BY <1>3, <1>7
  <2>3. event_pos' <= n - 1 /\ n - 1 >= 1
    BY <1>2, <1>3, <1>4
  <2>4. /\ fd_limit' = MaxConnections /\ fd_capacity' = MaxConnections
        /\ poller' = "running"
    BY <1>1, <1>4 DEF Inv, Arrays
  <2> QED
    BY <1>6, <2>1, <2>2, <2>3, <2>4 DEF Arrays
<1>10. Opened'
  <2>1. open = {fds[k].fd : k \in 1..n}
    BY <1>1 DEF Inv, Opened, P!Registered, P!fd_count
  <2>2. P!Registered' = {fds'[k].fd : k \in 1..n - 1}
    BY <1>6 DEF P!Registered, P!fd_count
  <2>3. {fds'[k].fd : k \in 1..n - 1} = {fds[k].fd : k \in (1..n) \ {hole}}
    <3>1. ASSUME NEW k \in 1..n - 1
          PROVE  \E j \in (1..n) \ {hole} : fds'[k].fd = fds[j].fd
      BY <1>5, <1>6
    <3>2. ASSUME NEW k \in (1..n) \ {hole}
          PROVE  \E j \in 1..n - 1 : fds'[j].fd = fds[k].fd
      <4>1. PICK j \in 1..n - 1 : Source(j) = k
        BY <1>5
      <4> QED
        BY <1>6, <4>1
    <3>3. \A x \in {fds'[k].fd : k \in 1..n - 1} : x \in {fds[k].fd : k \in (1..n) \ {hole}}
      BY <3>1
    <3>4. \A x \in {fds[k].fd : k \in (1..n) \ {hole}} : x \in {fds'[k].fd : k \in 1..n - 1}
      BY <3>2, Zenon
    <3> QED
      BY <3>3, <3>4
  <2>4. {fds[k].fd : k \in (1..n) \ {hole}} = {fds[k].fd : k \in 1..n} \ {fd}
    BY <1>2, <1>3
  <2> QED
    BY <1>1, <2>1, <2>2, <2>3, <2>4 DEF Opened
<1>11. Own_data'
  <2> SUFFICES ASSUME NEW k \in 1..n - 1, fds'[k].fd # Listener
               PROVE  /\ data'[k] < connection_count
                      /\ connections[data'[k]].socket = fds'[k].fd
    BY <1>1, <1>6 DEF Own_data
  <2>1. Source(k) \in 1..n /\ fds'[k] = fds[Source(k)] /\ data'[k] = data[Source(k)]
    BY <1>5, <1>6
  <2> QED
    BY <1>1, <2>1 DEF Inv, Own_data
<1>12. Message'
  BY <1>1, <1>4 DEF Message
<1>13. Expected'
  BY <1>1, <1>4, <1>7 DEF Inv, Expected
<1>14. QueueIsFresh(FALSE)'
  BY <1>1, FewerOpenFresh DEF Inv
<1> QED
  BY <1>1, <1>8, <1>9, <1>10, <1>11, <1>12, <1>13, <1>14 DEF IInv, Inv

LEMMA FreeInv == ASSUME IInv, free PROVE IInv'
<1>1. /\ TypeOK /\ Inv /\ pc = "free" /\ status' = "closed"
      /\ P!net_poller_free /\ Disconnected(P!Registered)
      /\ UNCHANGED <<pc, running, connections, connection_count, read>>
  BY DEF free, At, Exit, IInv, table, Freed
<1>2. open' = {}
  BY <1>1 DEF Inv, Opened, Disconnected
<1>3. TypeOK'
  <2>1. ClientsTypeOK'
    BY <1>1, DisconnectedType DEF TypeOK, ClientsTypeOK
  <2>2. P!TypeOK'
    BY <1>1 DEF TypeOK, P!TypeOK, P!net_poller_free
  <2> QED
    BY <1>1, <2>1, <2>2 DEF TypeOK
<1> QED
  BY <1>1, <1>2, <1>3 DEF IInv

-----------------------------------------------------------------------------
(* The invariant *)

(* Every step keeps the invariant. *)
LEMMA StepInv == IInv /\ [Next]_vars => IInv'
<1> SUFFICES ASSUME IInv, [Next]_vars PROVE IInv'
  OBVIOUS
<1>1. CASE UNCHANGED vars
  <2>1. /\ UNCHANGED <<pc, connections, connection_count, read, running, net_poller>>
        /\ UNCHANGED <<status, backlog, open, inbox, eof, reset>>
        /\ UNCHANGED <<todo, waiting, connects, requests>>
    BY <1>1 DEF vars, main, table, sockets, clients
  <2>2. TypeOK'
    BY <2>1 DEF IInv, TypeOK, P!TypeOK, ClientsTypeOK, net_poller
  <2>3. CASE status = "running"
    <3>1. QueueIsFresh(FALSE)'
      BY <2>1, <2>3, QueueKept DEF IInv, Inv
    <3> QED
      BY <2>1, <2>2, <2>3, <3>1, SameInv
  <2>4. CASE status # "running"
    BY <2>1, <2>2, <2>4 DEF IInv
  <2> QED
    BY <2>3, <2>4
<1> QED
  BY <1>1, CreateInv, LoopInv, WaitEventInv, WaitNothingInv, NextInv, AcceptInv, CloseInv,
     FreeInv, RecvInv, RecvFailedInv, RecvOverInv, ParseInv, HandlerInv, ClientInv
     DEF Next, Main

(* The poller's arrays, the table of server.c and the kernel's descriptors *)
(* agree at every step.                                                    *)
THEOREM Invariant == Spec => []IInv
BY InitInv, StepInv, PTL DEF Spec

(* No variable leaves its type; in particular what process_connection has  *)
(* read never exceeds the buffer.                                          *)
THEOREM TypeCorrect == Spec => []TypeOK
<1>1. IInv => TypeOK
  BY DEF IInv
<1> QED
  BY <1>1, Invariant, PTL

(* net_poller_wait is given exactly the open descriptors, each once, and a *)
(* program that Ctrl-C ended, wherever in the loop it came, has closed all *)
(* of them.                                                                *)
THEOREM LeaksNothing == Spec => []NothingLeaks
<1>1. IInv => NothingLeaks
  <2> SUFFICES ASSUME IInv PROVE NothingLeaks
    OBVIOUS
  <2>1. status = "closed" => open = {}
    BY DEF IInv
  <2>2. ASSUME At("wait")
        PROVE  P!Registered = open /\ Cardinality(open) = P!fd_count
    <3>1. TypeOK /\ Arrays /\ open = P!Registered
      BY <2>2 DEF IInv, Inv, At, Opened
    <3> DEFINE n == Len(fds)
               f == [s \in 0..n - 1 |-> fds[s + 1]]
    <3>2. n \in Nat
      BY <3>1, Types
    <3>3. \A x : x \in open <=> \E s \in 0..n - 1 : x = f[s].fd
      <4>1. \A x : x \in open <=> \E k \in 1..n : x = fds[k].fd
        BY <3>1 DEF P!Registered, P!fd_count
      <4>2. \A s \in 0..n - 1 : s + 1 \in 1..n /\ f[s] = fds[s + 1]
        BY <3>2
      <4>3. \A k \in 1..n : k - 1 \in 0..n - 1 /\ f[k - 1] = fds[k]
        BY <3>2
      <4> HIDE DEF f
      <4> QED
        BY <4>1, <4>2, <4>3
    <3>4. \A s, t \in 0..n - 1 : f[s].fd = f[t].fd => s = t
      <4>1. \A j, k \in 1..n : fds[j].fd = fds[k].fd => j = k
        BY <3>1 DEF Arrays
      <4> QED
        BY <3>2, <4>1
    <3> HIDE DEF f
    <3>5. Cardinality(open) = n
      BY <3>2, <3>3, <3>4, SlotsCount
    <3> QED
      BY <3>1, <3>5 DEF P!fd_count
  <2> QED
    BY <2>1, <2>2, SameCardinality DEF NothingLeaks
<1> QED
  BY <1>1, Invariant, PTL

(* process_connection is called with the socket of the element of the      *)
(* table whose number it is given, in spite of the poller's removals.      *)
THEOREM OwnData == Spec => []DataIsOwn
<1>1. IInv => DataIsOwn
  <2> SUFFICES ASSUME IInv, status = "running"
               PROVE  /\ Own_data
                      /\ pc \in {"recv", "parse"} => connections[id].socket = fd
    BY DEF DataIsOwn, Own_data, P!fd_count
  <2> QED
    BY MessageIsClient DEF IInv, Inv
<1> QED
  BY <1>1, Invariant, PTL

=============================================================================
