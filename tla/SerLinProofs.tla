---------------------------- MODULE SerLinProofs ----------------------------
(***************************************************************************)
(* Proofs about ser_lin.c, for any clients, requests, table and buffer:    *)
(* the table holds what is open, each descriptor once, through every step  *)
(* of the compacting loop, so that polls see all of it and SIGINT's        *)
(* handler, whenever it runs on a table that is not full, closes all of it.*)
(***************************************************************************)
EXTENDS SerLin, Integers, SequenceTheorems, FiniteSetTheorems, FunctionTheorems,
        WellFoundedInduction, TLAPS

-----------------------------------------------------------------------------
(* What the steps of clients leave of their types *)

(* The clients keep their types. *)
LEMMA ClientStepType ==
  ASSUME ClientsTypeOK, NEW c \in Client, Client_step(c)
  PROVE  ClientsTypeOK'
<1> USE DEF ClientsTypeOK, sockets, clients
<1>1. CASE Connect(c)
  <2>1. backlog' \in Seq(Client)
    BY <1>1, AppendProperties DEF Connect
  <2>2. connects' \in 0..MaxConnects
    BY <1>1, WebClientsAssumption DEF Connect
  <2> QED
    BY <1>1, <2>1, <2>2 DEF Connect
<1>2. CASE Begin(c)
  <2>1. todo' \in [Client -> Seq(Unit)]
    BY <1>2, WebClientsAssumption DEF Begin
  <2>2. requests' \in 0..MaxRequests
    BY <1>2, WebClientsAssumption DEF Begin
  <2> QED
    BY <1>2, <2>1, <2>2 DEF Begin
<1>3. CASE Send(c)
  <2>1. todo[c] \in Seq(Unit) /\ todo[c] # <<>> /\ inbox[c] \in Seq(Unit)
    BY <1>3 DEF Send
  <2>2. Tail(todo[c]) \in Seq(Unit) /\ Head(todo[c]) \in Unit
    BY <2>1, HeadTailProperties
  <2>3. Append(inbox[c], Head(todo[c])) \in Seq(Unit)
    BY <2>1, <2>2, AppendProperties
  <2> QED
    BY <1>3, <2>2, <2>3 DEF Send
<1>4. CASE Close(c)
  BY <1>4 DEF Close
<1>5. CASE Reset(c)
  BY <1>5 DEF Reset
<1> QED
  BY <1>1, <1>2, <1>3, <1>4, <1>5 DEF Client_step

(* Clients whose connections the program closed keep their types. *)
LEMMA DisconnectedType ==
  ASSUME ClientsTypeOK, NEW fds, Disconnected(fds),
         status' \in {"running", "closed", "failed", "undefined"}
  PROVE  ClientsTypeOK'
<1>1. <<>> \in Seq(Unit)
  BY EmptySeq
<1> QED
  BY <1>1 DEF ClientsTypeOK, Disconnected

-----------------------------------------------------------------------------
(* The queue of connections that wait for an accept *)

(* Clients open and close nothing at the server. *)
LEMMA ClientStepQueue ==
  ASSUME ClientsTypeOK, NEW c \in Client, Client_step(c),
         NEW accepted \in BOOLEAN, QueueIsFresh(accepted)
  PROVE  /\ open' = open /\ status' = status /\ status = "running"
         /\ QueueIsFresh(accepted)'
         /\ backlog # <<>> => backlog' # <<>> /\ Head(backlog') = Head(backlog)
<1>1. open' = open /\ status' = status /\ status = "running"
  BY DEF Client_step, Connect, Begin, Send, Close, Reset, Talking, sockets
<1>2. CASE backlog' = backlog
  BY <1>1, <1>2 DEF QueueIsFresh
<1>3. CASE c \notin open /\ ~Queued(c) /\ backlog' = Append(backlog, c)
  <2>1. /\ Len(backlog') = Len(backlog) + 1 /\ Len(backlog) \in Nat
        /\ \A k \in 1..Len(backlog) : backlog'[k] = backlog[k]
        /\ backlog'[Len(backlog) + 1] = c
        /\ backlog' # <<>>
    <3>1. backlog \in Seq(Client)
      BY DEF ClientsTypeOK
    <3> QED
      BY <1>3, <3>1, AppendProperties, LenProperties
  <2>2. \A k \in 1..Len(backlog) : backlog[k] # c
    BY <1>3 DEF Queued
  <2>3. QueueIsFresh(accepted)'
    BY <1>1, <1>3, <2>1, <2>2 DEF QueueIsFresh
  <2>4. backlog # <<>> => Head(backlog') = Head(backlog)
    BY <1>3, HeadTailAppend DEF ClientsTypeOK
  <2> QED
    BY <1>1, <2>1, <2>3, <2>4
<1> QED
  BY <1>2, <1>3 DEF Client_step, Connect, Begin, Send, Close, Reset, sockets

(* Once the first was accepted and has left the queue, or before it is. *)
LEMMA TailIsFresh ==
  ASSUME ClientsTypeOK, NEW accepted \in BOOLEAN, QueueIsFresh(accepted), backlog # <<>>,
         backlog' = Tail(backlog), open' = open \cup {Head(backlog)}
  PROVE  QueueIsFresh(FALSE)' /\ (~accepted => Head(backlog) \notin open)
<1>1. /\ Len(backlog) \in Nat /\ Len(backlog) >= 1
      /\ Len(backlog') = Len(backlog) - 1
      /\ \A k \in 1..Len(backlog') : backlog'[k] = backlog[k + 1]
      /\ Head(backlog) = backlog[1]
  BY HeadTailProperties, LenProperties, EmptySeq DEF ClientsTypeOK
<1> QED
  BY <1>1 DEF QueueIsFresh

(* A client that is accepted was not connected yet. *)
LEMMA HeadIsFresh ==
  ASSUME ClientsTypeOK, QueueIsFresh(FALSE), backlog # <<>>,
         UNCHANGED backlog, open' = open \cup {Head(backlog)}
  PROVE  QueueIsFresh(TRUE)' /\ Head(backlog) \notin open /\ Head(backlog) \in Client
<1>1. /\ Len(backlog) \in Nat /\ Len(backlog) >= 1
      /\ Head(backlog) = backlog[1] /\ Head(backlog) \in Client
  BY HeadTailProperties, LenProperties, EmptySeq DEF ClientsTypeOK
<1> QED
  BY <1>1 DEF QueueIsFresh

(* Fewer open descriptors leave the queue as it was. *)
LEMMA FewerOpenFresh ==
  ASSUME QueueIsFresh(FALSE), UNCHANGED backlog, open' \subseteq open
  PROVE  QueueIsFresh(FALSE)'
  BY DEF QueueIsFresh

-----------------------------------------------------------------------------
(* Tables *)

(* The loops over the table find the next slot that they look for. *)
LEMMA MinIsMember ==
  ASSUME NEW S \in SUBSET Nat, S # {}
  PROVE  Min(S) \in S
<1>1. IsWellFoundedOn(OpToRel(<, Nat), Nat)
  BY NatLessThanWellFounded
<1>2. PICK x \in S : \A y \in S : ~ (<<y, x>> \in OpToRel(<, Nat))
  BY <1>1, WFMin
<1>3. \A y \in S : ~ (y < x)
  BY <1>2 DEF OpToRel
<1>4. \A y \in S : x <= y
  BY <1>3
<1> QED
  BY <1>4 DEF Min

(* A table with no descriptor twice has as many as it has slots. *)
LEMMA SlotsCount ==
  ASSUME NEW n \in Nat, NEW f, NEW T,
         \A x : x \in T <=> \E s \in 0..n - 1 : x = f[s].fd,
         \A s, t \in 0..n - 1 : f[s].fd = f[t].fd => s = t
  PROVE  IsFiniteSet(T) /\ Cardinality(T) = n
<1> DEFINE g == [s \in 0..n - 1 |-> f[s].fd]
<1>1. g \in Bijection(0..n - 1, T)
  <2>1. g \in [0..n - 1 -> T]
    OBVIOUS
  <2>2. \A s, t \in 0..n - 1 : g[s] = g[t] => s = t
    OBVIOUS
  <2>3. \A x \in T : \E s \in 0..n - 1 : g[s] = x
    OBVIOUS
  <2> QED
    BY <2>1, <2>2, <2>3, Fun_IsBij
<1>2. ExistsBijection(0..n - 1, T)
  BY <1>1 DEF ExistsBijection
<1>3. IsFiniteSet(0..n - 1) /\ Cardinality(0..n - 1) = n
  BY FS_Interval
<1> QED
  BY <1>2, <1>3, FS_Bijection

-----------------------------------------------------------------------------
(* Reads *)

(* A read takes at most as much as it asks for, and leaves the rest. *)
LEMMA TakenFromInbox ==
  ASSUME NEW s \in Seq(Unit), NEW n \in Nat
  PROVE  LET t == SubSeq(s, 1, Min({n, Len(s)})) IN
           /\ t \in Seq(Unit) /\ Len(t) <= n
           /\ SubSeq(s, Len(t) + 1, Len(s)) \in Seq(Unit)
<1> DEFINE m == Min({n, Len(s)})
           t == SubSeq(s, 1, m)
<1>1. Len(s) \in Nat /\ \A k \in 1..Len(s) : s[k] \in Unit
  BY LenProperties, ElementOfSeq
<1>2. m \in Nat /\ m <= n /\ m <= Len(s)
  <2>1. {n, Len(s)} \in SUBSET Nat /\ {n, Len(s)} # {}
    BY <1>1
  <2>2. m \in {n, Len(s)}
    BY <2>1, MinIsMember
  <2>3. PICK k \in {n, Len(s)} : k <= n /\ k <= Len(s)
    BY <1>1
  <2> QED
    BY <1>1, <2>2, <2>3 DEF Min
<1> HIDE DEF m
<1>3. t \in Seq(Unit) /\ Len(t) = m
  BY <1>1, <1>2, SubSeqProperties
<1>4. SubSeq(s, m + 1, Len(s)) \in Seq(Unit)
  BY <1>1, <1>2, SubSeqProperties
<1> QED
  BY <1>2, <1>3, <1>4 DEF m

-----------------------------------------------------------------------------
(* The invariant *)

(* The slots that hold an open descriptor.  While the compacting loop runs *)
(* these are the survivors it has placed and those it has not looked at.   *)
Held ==
  CASE pc \in {"create", "listening"}    -> {}
    [] pc \in {"poll", "accept", "store"} -> 0..conn_count - 1
    [] pc \in {"serve", "read", "reply", "write"} -> 0..new_conn_count - 1
    [] pc = "compact"                     -> (0..p - 1) \cup (i..new_conn_count - 1)

(* The descriptor that a call returned and the table does not hold yet. *)
In_hand ==
  CASE pc = "listening" -> {Listener}
    [] pc = "store"     -> {Head(backlog)}
    [] OTHER            -> {}

Open_held == open = {connections[s].fd : s \in Held} \cup In_hand

Held_once ==
  /\ \A s, t \in Held : connections[s].fd = connections[t].fd => s = t
  /\ \A s \in Held : connections[s].fd \notin In_hand

Listener_first ==
  pc \notin {"create", "listening"} =>
    conn_count >= 1 /\ connections[LISTEN_ID].fd = Listener

Counts ==
  /\ pc \in {"accept", "store"} => new_conn_count = conn_count
  /\ pc \in {"accept", "store"} => i = 1
  /\ pc \in {"serve", "read", "reply", "write", "compact"} =>
       new_conn_count \in {conn_count, conn_count + 1}
  /\ pc = "serve" => i <= conn_count
  /\ pc \in {"read", "reply", "write"} => i <= conn_count - 1
  /\ pc = "compact" => p <= i /\ i <= new_conn_count

TableInv ==
  /\ Open_held
  /\ Held_once
  /\ Listener_first
  /\ Counts
  /\ QueueIsFresh(pc = "store")

IInv == TypeOK /\ (status = "running" => TableInv) /\ HandlerClosesAll

-----------------------------------------------------------------------------
(* What the invariant says of the slot that a step works on *)

(* Indices and counts are numbers within the table. *)
LEMMA Sizes ==
  ASSUME TypeOK
  PROVE  /\ MaxConnections \in Nat /\ MaxConnections >= 1 /\ Buffer \in Nat /\ Buffer >= 1
         /\ conn_count \in Nat /\ conn_count <= MaxConnections
         /\ new_conn_count \in Nat /\ 1 <= new_conn_count /\ new_conn_count <= MaxConnections
         /\ i \in Nat /\ 1 <= i /\ i <= MaxConnections
         /\ p \in Nat /\ 1 <= p /\ p <= MaxConnections
         /\ LISTEN_ID \in Slot
  BY SerLinAssumption DEF TypeOK, Slot, LISTEN_ID

(* Slot 0 is held by the listener, so that no other held slot is. *)
LEMMA HeldIsClient ==
  ASSUME TypeOK, TableInv, pc \notin {"create", "listening"}, NEW s \in Held, s # 0
  PROVE  connections[s].fd \in Client /\ connections[s].fd \in open
<1>1. connections[s].fd \in open
  BY DEF TableInv, Open_held
<1>2. 0 \in Held
  <2>1. pc \in {"poll", "accept", "store"} => Held = 0..conn_count - 1
    BY DEF Held
  <2>2. pc \in {"serve", "read", "reply", "write"} => Held = 0..new_conn_count - 1
    BY DEF Held
  <2>3. pc = "compact" => Held = (0..p - 1) \cup (i..new_conn_count - 1)
    BY DEF Held
  <2>4. conn_count >= 1
    BY DEF TableInv, Listener_first
  <2> QED
    BY <2>1, <2>2, <2>3, <2>4, Sizes DEF TypeOK
<1>3. connections[0].fd = Listener
  BY DEF TableInv, Listener_first, LISTEN_ID
<1>4. connections[s].fd # Listener
  BY <1>2, <1>3 DEF TableInv, Held_once
<1>5. open \subseteq Client \cup {Listener}
  BY DEF TypeOK, ClientsTypeOK, Fd
<1> QED
  BY <1>1, <1>4, <1>5

(* What is read from and replied to is a client of the table. *)
LEMMA ServedIsClient ==
  ASSUME IInv, status = "running", pc \in {"read", "reply", "write"}
  PROVE  fd \in Client /\ i <= conn_count - 1 /\ i \in Slot
<1>1. TypeOK /\ TableInv
  BY DEF IInv
<1>2. i <= conn_count - 1 /\ new_conn_count \in {conn_count, conn_count + 1}
  BY <1>1 DEF TableInv, Counts
<1>3. Held = 0..new_conn_count - 1
  BY DEF Held
<1>4. i \in Held /\ i # 0 /\ i \in Slot
  BY <1>1, <1>2, <1>3, Sizes DEF Slot
<1> QED
  BY <1>1, <1>2, <1>4, HeldIsClient DEF fd

-----------------------------------------------------------------------------
(* Types *)

(* Typed at first. *)
LEMMA InitType == Init => TypeOK
<1> SUFFICES ASSUME Init PROVE TypeOK
  OBVIOUS
<1>1. ClientsTypeOK
  BY WebClientsAssumption, EmptySeq DEF Init, ClientsInit, ClientsTypeOK
<1> QED
  BY <1>1, SerLinAssumption, EmptySeq DEF Init, TypeOK

-----------------------------------------------------------------------------
(* The steps of the server *)

\* Steps that end the program close nothing by the handler.
LEMMA Ends ==
  ASSUME IInv, status = "running", TypeOK', status' \in {"failed", "undefined"}
  PROVE  IInv'
  BY DEF IInv, HandlerClosesAll

\* Nor do steps that go on.
LEMMA GoesOn ==
  ASSUME TypeOK', TableInv', status' = "running"
  PROVE  IInv'
  BY DEF IInv, HandlerClosesAll

LEMMA CreateInv == ASSUME IInv, create_socket PROVE IInv'
<1>1. TypeOK'
  BY DEF create_socket, IInv, TypeOK, ClientsTypeOK, At, table, clients, Fd
<1>2. CASE status' = "failed"
  BY <1>1, <1>2, Ends DEF create_socket, At
<1>3. CASE status' # "failed"
  <2>1. /\ pc = "create" /\ pc' = "listening" /\ open' = {Listener} /\ status' = "running"
        /\ UNCHANGED <<table, i, p, backlog>>
    BY <1>3 DEF create_socket, At
  <2>2. backlog = <<>> \/ QueueIsFresh(FALSE)
    BY <2>1 DEF IInv, TableInv, create_socket, At
  <2>3. \A k \in 1..Len(backlog) : backlog[k] \in Client
    BY ElementOfSeq DEF IInv, TypeOK, ClientsTypeOK
  <2>4. QueueIsFresh(FALSE)'
    BY <2>1, <2>3, WebClientsAssumption DEF QueueIsFresh, IInv, TableInv, create_socket, At
  <2>5. TableInv'
    BY <2>1, <2>4 DEF TableInv, Open_held, Held_once, Listener_first, Counts, Held, In_hand
  <2> QED
    BY <1>1, <2>1, <2>5, GoesOn
<1> QED
  BY <1>2, <1>3

LEMMA StoreListenerInv == ASSUME IInv, store_listener PROVE IInv'
<1>1. /\ pc = "listening" /\ pc' = "poll" /\ status = "running" /\ status' = "running"
      /\ connections' = [connections EXCEPT ![LISTEN_ID].fd = Listener]
      /\ conn_count' = 1
      /\ UNCHANGED <<remove_marks, new_conn_count, i, p, arena, backlog, open>>
  BY DEF store_listener, At, sockets
<1>2. TypeOK /\ TableInv
  BY <1>1 DEF IInv
<1>3. TypeOK'
  <2>1. connections' \in [Slot -> [fd : Fd \cup {Stdin}, in : BOOLEAN]]
    BY <1>1, <1>2 DEF TypeOK, Fd
  <2> QED
    BY <1>1, <1>2, <2>1, Sizes DEF store_listener, TypeOK, ClientsTypeOK, sockets, clients
<1>4. connections'[0].fd = Listener
  BY <1>1, <1>2, Sizes DEF TypeOK, LISTEN_ID
<1>5. open = {Listener}
  BY <1>1, <1>2 DEF TableInv, Open_held, Held, In_hand
<1>6. Held' = {0} /\ In_hand' = {}
  BY <1>1 DEF Held, In_hand
<1>7. QueueIsFresh(FALSE)'
  BY <1>1, <1>2 DEF TableInv, QueueIsFresh
<1>8. Open_held' /\ Held_once' /\ Listener_first' /\ Counts'
  BY <1>1, <1>4, <1>5, <1>6 DEF Open_held, Held_once, Listener_first, Counts, LISTEN_ID
<1> QED
  BY <1>1, <1>3, <1>7, <1>8, GoesOn DEF TableInv

(* What a call of poll, failed or not, leaves as it was. *)
LEMMA PolledInv ==
  ASSUME IInv, At("poll"), TypeOK',
         \A s \in Slot : connections'[s].fd = connections[s].fd,
         new_conn_count' = conn_count, i' = LISTEN_ID + 1, pc' \in {"accept", "serve"},
         UNCHANGED <<status, conn_count, backlog, open>>
  PROVE  IInv'
<1>1. TypeOK /\ TableInv /\ pc = "poll" /\ status' = "running"
  BY DEF IInv, At
<1>2. Held = 0..conn_count - 1 /\ Held' = 0..conn_count - 1
  BY <1>1 DEF Held
<1>3. Held \subseteq Slot
  BY <1>1, <1>2, Sizes DEF Slot
<1>4. In_hand = {} /\ In_hand' = {}
  BY <1>1 DEF In_hand
<1>5. Open_held'
  BY <1>1, <1>2, <1>3, <1>4 DEF TableInv, Open_held
<1>6. Held_once'
  BY <1>1, <1>2, <1>3, <1>4 DEF TableInv, Held_once
<1>7. Listener_first' /\ Counts'
  BY <1>1, Sizes DEF TableInv, Listener_first, Counts, LISTEN_ID
<1>8. QueueIsFresh(pc = "store")'
  BY <1>1 DEF TableInv, QueueIsFresh
<1> QED
  BY <1>1, <1>5, <1>6, <1>7, <1>8, GoesOn DEF TableInv

LEMMA PollInv == ASSUME IInv, poll \/ poll_failed PROVE IInv'
<1>1. /\ At("poll") /\ TypeOK
      /\ new_conn_count' = conn_count /\ i' = LISTEN_ID + 1
      /\ UNCHANGED <<status, remove_marks, conn_count, p, arena, sockets, clients>>
  BY DEF IInv, poll, poll_failed
<1>2. pc' \in {"accept", "serve"}
  BY DEF poll, poll_failed, Goto_accept
<1>3. /\ connections' \in [Slot -> [fd : Fd \cup {Stdin}, in : BOOLEAN]]
      /\ \A s \in Slot : connections'[s].fd = connections[s].fd
  <2>1. CASE poll
    <3>1. \A f \in Fd \cup {Stdin} : Readable(f) \in BOOLEAN
      BY DEF Readable
    <3>2. connections' = [s \in Slot |-> [fd |-> connections[s].fd,
                            in |-> IF s < conn_count THEN Readable(connections[s].fd)
                                   ELSE connections[s].in]]
      BY <1>1, <2>1 DEF poll, Polled, TypeOK
    <3> QED
      BY <1>1, <3>1, <3>2 DEF TypeOK
  <2>2. CASE poll_failed
    <3>1. CASE UNCHANGED connections
      BY <1>1, <3>1 DEF TypeOK
    <3>2. CASE connections' = [s \in Slot |-> [connections[s] EXCEPT !.in = FALSE]]
      <4>1. \A s \in Slot : /\ [connections[s] EXCEPT !.in = FALSE].fd = connections[s].fd
                            /\ [connections[s] EXCEPT !.in = FALSE] \in
                                 [fd : Fd \cup {Stdin}, in : BOOLEAN]
        BY <1>1 DEF TypeOK
      <4> QED
        BY <3>2, <4>1
    <3> QED
      BY <2>2, <3>1, <3>2 DEF poll_failed
  <2> QED
    BY <2>1, <2>2
<1>4. 1 <= conn_count
  BY <1>1 DEF IInv, At, TableInv, Listener_first
<1>5. TypeOK'
  <2>1. ClientsTypeOK'
    BY <1>1 DEF TypeOK, ClientsTypeOK, sockets, clients
  <2> QED
    BY <1>1, <1>2, <1>3, <1>4, <2>1, Sizes DEF TypeOK, LISTEN_ID
<1> QED
  BY <1>1, <1>2, <1>3, <1>5, PolledInv DEF sockets

LEMMA AcceptInv == ASSUME IInv, accept_connection PROVE IInv'
<1>1. /\ TypeOK /\ TableInv /\ pc = "accept" /\ status = "running"
      /\ UNCHANGED <<table, i, p, arena, backlog, inbox, eof, reset, clients>>
  BY DEF accept_connection, At, IInv
<1>2. CASE backlog = <<>> /\ status' = "failed" /\ UNCHANGED <<pc, open>>
  <2>1. TypeOK'
    BY <1>1, <1>2 DEF TypeOK, ClientsTypeOK, table, clients
  <2> QED
    BY <1>1, <1>2, <2>1, Ends
<1>3. CASE backlog # <<>> /\ pc' = "store" /\ open' = open \cup {Head(backlog)}
           /\ status' = status
  <2>1. QueueIsFresh(TRUE)' /\ Head(backlog) \notin open /\ Head(backlog) \in Client
    <3>1. QueueIsFresh(FALSE)
      BY <1>1 DEF TableInv
    <3> QED
      BY <1>1, <1>3, <3>1, HeadIsFresh DEF TypeOK
  <2>2. TypeOK'
    BY <1>1, <1>3, <2>1 DEF TypeOK, ClientsTypeOK, table, clients, Fd
  <2>3. Held = 0..conn_count - 1 /\ Held' = Held /\ In_hand = {} /\ In_hand' = {Head(backlog)}
    BY <1>1, <1>3 DEF Held, In_hand, table
  <2>4. Open_held'
    BY <1>1, <1>3, <2>3 DEF TableInv, Open_held, table
  <2>5. Held_once'
    BY <1>1, <2>1, <2>3 DEF TableInv, Open_held, Held_once, table
  <2>6. Listener_first' /\ Counts'
    BY <1>1, <1>3 DEF TableInv, Listener_first, Counts, table
  <2>7. QueueIsFresh(pc = "store")'
    BY <1>3, <2>1
  <2> QED
    BY <1>1, <1>3, <2>2, <2>4, <2>5, <2>6, <2>7, GoesOn DEF TableInv
<1> QED
  BY <1>2, <1>3 DEF accept_connection

LEMMA StoreInv == ASSUME IInv, store_connection PROVE IInv'
<1>1. /\ TypeOK /\ TableInv /\ pc = "store" /\ status = "running"
      /\ backlog' = Tail(backlog) /\ pc' = "serve"
      /\ UNCHANGED <<i, p, arena, open, inbox, eof, reset, clients>>
  BY DEF store_connection, At, IInv
<1>2. /\ backlog # <<>> /\ Head(backlog) \in open /\ Head(backlog) \in Client
      /\ Tail(backlog) \in Seq(Client)
  <2>1. backlog # <<>>
    BY <1>1 DEF TableInv, QueueIsFresh
  <2>2. Head(backlog) \in open
    BY <1>1 DEF TableInv, Open_held, In_hand
  <2> QED
    BY <1>1, <2>1, <2>2, HeadTailProperties DEF TypeOK, ClientsTypeOK
<1>3. CASE status' = "undefined" /\ UNCHANGED table
  <2>1. TypeOK'
    BY <1>1, <1>2, <1>3 DEF TypeOK, ClientsTypeOK, table, clients
  <2> QED
    BY <1>1, <1>3, <2>1, Ends
<1>4. CASE /\ conn_count < MaxConnections
           /\ connections' = [connections EXCEPT ![conn_count] = [fd |-> Head(backlog), in |-> FALSE]]
           /\ remove_marks' = [remove_marks EXCEPT ![conn_count] = FALSE]
           /\ new_conn_count' = new_conn_count + 1
           /\ UNCHANGED <<status, conn_count>>
  <2>1. /\ new_conn_count = conn_count /\ i = 1 /\ conn_count \in Slot
        /\ conn_count \in Nat /\ conn_count >= 1
    BY <1>1, <1>4, Sizes DEF TableInv, Counts, Listener_first, Slot
  <2>2. TypeOK'
    <3>1. connections' \in [Slot -> [fd : Fd \cup {Stdin}, in : BOOLEAN]]
      BY <1>1, <1>2, <1>4 DEF TypeOK, Fd
    <3>2. new_conn_count' \in 1..MaxConnections
      BY <1>1, <1>4, <2>1, Sizes
    <3> QED
      BY <1>1, <1>2, <1>4, <3>1, <3>2 DEF TypeOK, ClientsTypeOK, clients
  <2>3. /\ connections'[conn_count].fd = Head(backlog)
        /\ \A s \in Slot : s # conn_count => connections'[s] = connections[s]
    BY <1>1, <1>4, <2>1 DEF TypeOK
  <2>4. /\ Held = 0..conn_count - 1 /\ Held' = Held \cup {conn_count}
        /\ In_hand = {Head(backlog)} /\ In_hand' = {}
    BY <1>1, <1>4, <2>1 DEF Held, In_hand
  <2>5. Held \subseteq Slot /\ conn_count \notin Held /\ 0 \in Held
    BY <1>1, <2>1, <2>4, Sizes DEF Slot
  <2>6. Open_held'
    <3>1. open = {connections[s].fd : s \in Held} \cup {Head(backlog)}
      BY <1>1, <2>4 DEF TableInv, Open_held
    <3>2. {connections'[s].fd : s \in Held'} = {connections[s].fd : s \in Held} \cup {Head(backlog)}
      BY <2>3, <2>4, <2>5
    <3> QED
      BY <1>1, <2>4, <3>1, <3>2 DEF Open_held
  <2>7. Held_once'
    <3>1. \A s \in Held : connections[s].fd # Head(backlog)
      BY <1>1, <2>4 DEF TableInv, Held_once
    <3>2. \A s, t \in Held : connections[s].fd = connections[t].fd => s = t
      BY <1>1 DEF TableInv, Held_once
    <3> QED
      BY <2>3, <2>4, <2>5, <3>1, <3>2 DEF Held_once
  <2>8. Listener_first' /\ Counts'
    BY <1>1, <1>4, <2>1, <2>3, <2>5 DEF TableInv, Listener_first, Counts, LISTEN_ID
  <2>9. QueueIsFresh(pc = "store")'
    <3>1. open' = open \cup {Head(backlog)} /\ QueueIsFresh(TRUE)
      BY <1>1, <1>2 DEF TableInv
    <3>2. QueueIsFresh(FALSE)'
      BY <1>1, <1>2, <3>1, TailIsFresh DEF TypeOK
    <3> QED
      BY <1>1, <3>2
  <2> QED
    BY <1>1, <1>4, <2>2, <2>6, <2>7, <2>8, <2>9, GoesOn DEF TableInv
<1> QED
  BY <1>3, <1>4 DEF store_connection

(* A step of the serving loop, which touches no table's descriptor. *)
LEMMA ServingInv ==
  ASSUME IInv, TypeOK', status = "running", status' = "running",
         pc \in {"serve", "read", "reply", "write"}, pc' \in {"serve", "read", "reply", "write"},
         pc' = "serve" => i' <= conn_count,
         pc' \in {"read", "reply", "write"} => i' <= conn_count - 1,
         UNCHANGED <<connections, conn_count, new_conn_count, backlog, open>>
  PROVE  IInv'
<1>1. TableInv
  BY DEF IInv
<1>2. Held' = Held /\ In_hand = {} /\ In_hand' = {}
  BY DEF Held, In_hand
<1>3. Open_held' /\ Held_once'
  BY <1>1, <1>2 DEF TableInv, Open_held, Held_once
<1>4. Listener_first' /\ Counts'
  BY <1>1 DEF TableInv, Listener_first, Counts
<1>5. QueueIsFresh(pc = "store")'
  BY <1>1 DEF TableInv, QueueIsFresh
<1> QED
  BY <1>3, <1>4, <1>5, GoesOn DEF TableInv

LEMMA ServeInv == ASSUME IInv, serve PROVE IInv'
<1>1. /\ TypeOK /\ TableInv /\ pc = "serve" /\ status = "running" /\ status' = "running"
      /\ UNCHANGED <<connections, remove_marks, conn_count, new_conn_count, backlog, open>>
      /\ UNCHANGED <<sockets, clients>>
  BY DEF serve, At, IInv, table, sockets
<1>2. CASE /\ Reported # {} /\ i' = Min(Reported) /\ arena' = <<>> /\ pc' = "read"
           /\ UNCHANGED p
  <2>1. Reported \subseteq 1..conn_count - 1
    BY DEF Reported, Served
  <2>2. i' \in 1..conn_count - 1
    <3>1. Reported \in SUBSET Nat /\ Reported # {}
      BY <1>2, <2>1
    <3>2. Min(Reported) \in Reported
      BY <3>1, MinIsMember
    <3> QED
      BY <1>2, <2>1, <3>2
  <2>3. TypeOK'
    <3>1. ClientsTypeOK'
      BY <1>1 DEF TypeOK, ClientsTypeOK, sockets, clients
    <3>2. arena' \in Seq(Unit)
      BY <1>2, EmptySeq
    <3> QED
      BY <1>1, <1>2, <2>2, <3>1, <3>2, Sizes DEF TypeOK
  <2> QED
    BY <1>1, <1>2, <2>2, <2>3, ServingInv
<1>3. CASE i' = 1 /\ p' = First_place /\ pc' = "compact" /\ UNCHANGED arena
  <2>1. p' = 1
    BY <1>3 DEF First_place, LISTEN_ID
  <2>2. TypeOK'
    BY <1>1, <1>3, <2>1, Sizes DEF TypeOK, ClientsTypeOK, sockets, clients
  <2>3. Held' = Held /\ In_hand = {} /\ In_hand' = {}
    <3>1. Held = 0..new_conn_count - 1 /\ Held' = (0..1 - 1) \cup (1..new_conn_count - 1)
      BY <1>1, <1>3, <2>1 DEF Held
    <3> QED
      BY <1>1, <1>3, <3>1, Sizes DEF In_hand
  <2>4. Open_held' /\ Held_once'
    BY <1>1, <2>3 DEF TableInv, Open_held, Held_once
  <2>5. Listener_first' /\ Counts'
    BY <1>1, <1>3, <2>1, Sizes DEF TableInv, Listener_first, Counts
  <2>6. QueueIsFresh(pc = "store")'
    BY <1>1, <1>3 DEF TableInv, QueueIsFresh
  <2> QED
    BY <1>1, <2>2, <2>4, <2>5, <2>6, GoesOn DEF TableInv
<1> QED
  BY <1>2, <1>3 DEF serve

(* What a read takes, and what it leaves, are requests. *)
LEMMA TakenType ==
  ASSUME IInv, At("read")
  PROVE  Taken \in Seq(Unit) /\ SubSeq(inbox[fd], Len(Taken) + 1, Len(inbox[fd])) \in Seq(Unit)
<1>1. inbox[fd] \in Seq(Unit) /\ Buffer \in Nat
  BY ServedIsClient, Sizes DEF At, IInv, TypeOK, ClientsTypeOK
<1> QED
  BY <1>1, TakenFromInbox DEF Taken

LEMMA ReadInv == ASSUME IInv, read PROVE IInv'
<1>1. /\ At("read") /\ TypeOK /\ TableInv /\ pc = "read" /\ status = "running"
      /\ status' = "running" /\ UNCHANGED <<status, p, backlog, open, eof, reset, clients>>
  BY DEF read, At, IInv
<1>2. fd \in Client /\ i <= conn_count - 1 /\ i \in Slot
  BY <1>1, ServedIsClient
<1>3. inbox' \in [Client -> Seq(Unit)]
  BY <1>1, <1>2, TakenType DEF read, TypeOK, ClientsTypeOK
<1>4. CASE Marked(TRUE) /\ UNCHANGED arena
  <2>1. ClientsTypeOK'
    BY <1>1, <1>3 DEF TypeOK, ClientsTypeOK, clients
  <2>2. i' \in 1..MaxConnections
    BY <1>1, <1>2, <1>4, Sizes DEF Marked
  <2>3. remove_marks' \in [Slot -> BOOLEAN]
    BY <1>1, <1>4 DEF Marked, TypeOK
  <2>4. TypeOK'
    BY <1>1, <1>4, <2>1, <2>2, <2>3 DEF Marked, TypeOK
  <2> QED
    BY <1>1, <1>2, <1>4, <2>4, Sizes, ServingInv DEF Marked
<1>5. CASE /\ arena' = arena \o Taken
           /\ pc' = IF Len(Taken) < Buffer THEN "reply" ELSE "read"
           /\ UNCHANGED <<table, i>>
  <2>1. arena' \in Seq(Unit)
    BY <1>1, <1>5, TakenType, ConcatProperties DEF TypeOK
  <2>2. pc' \in {"read", "reply"}
    BY <1>5
  <2>3. TypeOK'
    BY <1>1, <1>3, <1>5, <2>1, <2>2 DEF TypeOK, ClientsTypeOK, clients, table
  <2> QED
    BY <1>1, <1>2, <1>5, <2>2, <2>3, ServingInv DEF table
<1> QED
  BY <1>4, <1>5 DEF read

LEMMA ReadFailedInv == ASSUME IInv, read_failed PROVE IInv'
<1>1. TypeOK'
  BY DEF read_failed, IInv, TypeOK, ClientsTypeOK, table, sockets, clients
<1> QED
  BY <1>1, Ends DEF read_failed, At

(* The connection of slot i is done with. *)
LEMMA MarkedInv ==
  ASSUME IInv, status = "running", pc \in {"reply", "write"},
         NEW mark \in BOOLEAN, Marked(mark), UNCHANGED status,
         UNCHANGED <<p, arena, backlog, open, inbox, eof, todo, connects, requests>>,
         reset' \in [Client -> BOOLEAN], waiting' \in [Client -> BOOLEAN]
  PROVE  IInv'
<1>1. /\ TypeOK /\ TableInv /\ status' = "running"
      /\ UNCHANGED <<p, arena, backlog, open, inbox, eof, todo, connects, requests>>
  BY DEF IInv
<1>2. fd \in Client /\ i <= conn_count - 1 /\ i \in Slot
  BY ServedIsClient
<1>3. /\ remove_marks' = [remove_marks EXCEPT ![i] = mark]
      /\ i' = i + 1 /\ pc' = "serve"
      /\ UNCHANGED <<connections, conn_count, new_conn_count>>
  BY DEF Marked
<1>4. remove_marks' \in [Slot -> BOOLEAN]
  BY <1>1, <1>3 DEF TypeOK
<1>5. i' \in 1..MaxConnections /\ i' <= conn_count
  BY <1>1, <1>2, <1>3, Sizes DEF TypeOK
<1>6. ClientsTypeOK'
  BY <1>1 DEF TypeOK, ClientsTypeOK
<1>7. TypeOK'
  BY <1>1, <1>3, <1>4, <1>5, <1>6 DEF TypeOK
<1> QED
  BY <1>1, <1>2, <1>3, <1>5, <1>7, Sizes, ServingInv

(* A reply was written, at once or after its client read on. *)
LEMMA RepliedInv ==
  ASSUME IInv, status = "running", pc \in {"reply", "write"}, Replied,
         UNCHANGED <<p, arena, backlog, open, inbox, eof, todo, connects, requests>>
  PROVE  IInv'
<1>1. TypeOK /\ fd \in Client
  BY ServedIsClient DEF IInv
<1>2. eof[fd] \in BOOLEAN
  BY <1>1 DEF TypeOK, ClientsTypeOK
<1>3. reset' \in [Client -> BOOLEAN] /\ waiting' \in [Client -> BOOLEAN]
  BY <1>1, <1>2 DEF Replied, TypeOK, ClientsTypeOK
<1>4. Marked(FALSE) /\ UNCHANGED status
  BY DEF Replied
<1> QED
  BY <1>3, <1>4, MarkedInv

LEMMA ReplyInv == ASSUME IInv, reply PROVE IInv'
<1>1. /\ TypeOK /\ TableInv /\ pc = "reply" /\ status = "running"
      /\ UNCHANGED <<p, arena, backlog, open, inbox, eof, todo, connects, requests>>
  BY DEF reply, At, IInv
<1>2. CASE status' = "failed" /\ UNCHANGED <<pc, table, i, reset, waiting>>
  <2>1. TypeOK'
    BY <1>1, <1>2 DEF TypeOK, ClientsTypeOK, table
  <2> QED
    BY <1>1, <1>2, <2>1, Ends
<1>3. CASE Marked(TRUE) /\ UNCHANGED <<status, reset, waiting>>
  <2>1. reset' \in [Client -> BOOLEAN] /\ waiting' \in [Client -> BOOLEAN]
    BY <1>1, <1>3 DEF TypeOK, ClientsTypeOK
  <2> QED
    BY <1>1, <1>3, <2>1, MarkedInv
<1>4. CASE Replied
  BY <1>1, <1>4, RepliedInv
<1>5. CASE pc' = "write" /\ UNCHANGED <<status, table, i, reset, waiting>>
  <2>1. TypeOK'
    BY <1>1, <1>5 DEF TypeOK, ClientsTypeOK, table
  <2>2. i <= conn_count - 1
    BY <1>1, ServedIsClient
  <2> QED
    BY <1>1, <1>5, <2>1, <2>2, ServingInv DEF table
<1> QED
  BY <1>2, <1>3, <1>4, <1>5 DEF reply

LEMMA WriteUnblockedInv == ASSUME IInv, write_unblocked PROVE IInv'
<1>1. /\ TypeOK /\ TableInv /\ pc = "write" /\ status = "running"
      /\ UNCHANGED <<p, arena, backlog, open, inbox, eof, todo, connects, requests>>
  BY DEF write_unblocked, At, IInv
<1>2. CASE Replied
  BY <1>1, <1>2, RepliedInv
<1>3. CASE /\ reset' = [reset EXCEPT ![fd] = TRUE]
           /\ UNCHANGED <<status, pc, table, i, waiting>>
  <2>1. TypeOK'
    BY <1>1, <1>3 DEF TypeOK, ClientsTypeOK, table
  <2>2. i <= conn_count - 1
    BY <1>1, ServedIsClient
  <2> QED
    BY <1>1, <1>3, <2>1, <2>2, ServingInv DEF table
<1> QED
  BY <1>2, <1>3 DEF write_unblocked

LEMMA WriteFailedInv == ASSUME IInv, write_failed PROVE IInv'
<1>1. TypeOK'
  BY DEF write_failed, IInv, TypeOK, ClientsTypeOK, table, sockets, clients
<1> QED
  BY <1>1, Ends DEF write_failed, At

-----------------------------------------------------------------------------
(* The compacting loop *)

(* What the loop's head says of the slot it looks at. *)
LEMMA CompactedIsClient ==
  ASSUME IInv, At("compact"), i < new_conn_count
  PROVE  i \in Held /\ i \in Slot /\ p \in Slot /\ p <= i /\ fd \in Client /\ fd \in open
<1>1. TypeOK /\ TableInv /\ pc = "compact" /\ p <= i
  BY DEF IInv, At, TableInv, Counts
<1>2. i \in Held /\ i # 0 /\ i \in Slot /\ p \in Slot
  BY <1>1, Sizes DEF Held, Slot
<1> QED
  BY <1>1, <1>2, HeldIsClient DEF fd

LEMMA CompactCloseInv == ASSUME IInv, compact_close PROVE IInv'
<1>1. /\ TypeOK /\ TableInv /\ At("compact") /\ pc = "compact" /\ status = "running"
      /\ i < new_conn_count /\ Disconnected({fd}) /\ i' = i + 1
      /\ UNCHANGED <<pc, status, table, p, arena>>
      /\ UNCHANGED <<connections, conn_count, new_conn_count, backlog>>
      /\ open' = open \ {fd}
  BY DEF compact_close, At, IInv, table, Disconnected
<1>2. i \in Held /\ i \in Slot /\ p <= i /\ fd \in Client /\ fd \in open
  BY <1>1, CompactedIsClient
<1>3. TypeOK'
  <2>1. ClientsTypeOK'
    BY <1>1, DisconnectedType DEF TypeOK
  <2> QED
    BY <1>1, <2>1, Sizes DEF TypeOK, table
<1>4. Held' = Held \ {i} /\ In_hand = {} /\ In_hand' = {} /\ 0 \in Held'
  BY <1>1, <1>2, Sizes DEF Held, In_hand
<1>5. Held_once'
  BY <1>1, <1>4 DEF TableInv, Held_once
<1>6. Open_held'
  <2>1. \A s \in Held : connections[s].fd = fd <=> s = i
    BY <1>1, <1>2 DEF TableInv, Held_once, fd
  <2>2. open = {connections[s].fd : s \in Held}
    BY <1>1, <1>4 DEF TableInv, Open_held
  <2>3. open' = {connections[s].fd : s \in Held \ {i}}
    BY <1>1, <2>1, <2>2
  <2> QED
    BY <1>1, <1>4, <2>3 DEF Open_held
<1>7. Listener_first' /\ Counts'
  BY <1>1, <1>2, Sizes DEF TableInv, Listener_first, Counts
<1>8. QueueIsFresh(pc = "store")'
  BY <1>1, FewerOpenFresh DEF TableInv
<1> QED
  BY <1>1, <1>3, <1>5, <1>6, <1>7, <1>8, GoesOn DEF TableInv

LEMMA CompactKeepInv == ASSUME IInv, compact_keep PROVE IInv'
<1>1. /\ TypeOK /\ TableInv /\ At("compact") /\ pc = "compact" /\ status = "running"
      /\ i < new_conn_count
      /\ connections' = [connections EXCEPT ![p] = connections[i]]
      /\ p' = p + 1 /\ i' = i + 1
      /\ UNCHANGED <<pc, status, remove_marks, conn_count, new_conn_count, arena>>
      /\ UNCHANGED <<sockets, clients>> /\ UNCHANGED <<backlog, open>>
  BY DEF compact_keep, At, IInv, Next_place, sockets
<1>2. i \in Held /\ i \in Slot /\ p \in Slot /\ p <= i
  BY <1>1, CompactedIsClient
<1>3. TypeOK'
  <2>1. connections' \in [Slot -> [fd : Fd \cup {Stdin}, in : BOOLEAN]]
    BY <1>1, <1>2 DEF TypeOK
  <2>2. p' \in 1..MaxConnections /\ i' \in 1..MaxConnections
    BY <1>1, <1>2, Sizes
  <2>3. ClientsTypeOK'
    BY <1>1 DEF TypeOK, ClientsTypeOK, sockets, clients
  <2> QED
    BY <1>1, <2>1, <2>2, <2>3 DEF TypeOK
<1>4. /\ Held = (0..p - 1) \cup (i..new_conn_count - 1)
      /\ Held' = (0..p) \cup (i + 1..new_conn_count - 1)
      /\ In_hand = {} /\ In_hand' = {}
  BY <1>1, Sizes DEF Held, In_hand
<1>5. Held \subseteq Slot /\ Held' = (Held \ {i}) \cup {p} /\ (p # i => p \notin Held)
  BY <1>1, <1>2, <1>4, Sizes DEF Slot
<1>6. /\ connections'[p] = connections[i]
      /\ \A s \in Slot : s # p => connections'[s] = connections[s]
  BY <1>1, <1>2 DEF TypeOK
<1>7. Open_held'
  <2>1. {connections'[s].fd : s \in Held'} = {connections[s].fd : s \in Held}
    BY <1>2, <1>5, <1>6
  <2> QED
    BY <1>1, <1>4, <2>1 DEF TableInv, Open_held
<1>8. Held_once'
  <2>1. \A s, t \in Held : connections[s].fd = connections[t].fd => s = t
    BY <1>1 DEF TableInv, Held_once
  <2> QED
    BY <1>2, <1>4, <1>5, <1>6, <2>1 DEF Held_once
<1>9. Listener_first' /\ Counts'
  BY <1>1, <1>2, <1>6, Sizes DEF TableInv, Listener_first, Counts, LISTEN_ID
<1>10. QueueIsFresh(pc = "store")'
  BY <1>1 DEF TableInv, QueueIsFresh
<1> QED
  BY <1>1, <1>3, <1>7, <1>8, <1>9, <1>10, GoesOn DEF TableInv

LEMMA CompactedInv == ASSUME IInv, compacted PROVE IInv'
<1>1. /\ TypeOK /\ TableInv /\ pc = "compact" /\ status = "running"
      /\ i = new_conn_count /\ conn_count' = p /\ pc' = "poll"
      /\ UNCHANGED <<status, connections, remove_marks, new_conn_count, i, p, arena>>
      /\ UNCHANGED <<sockets, clients>> /\ UNCHANGED <<backlog, open>>
  BY DEF compacted, At, IInv, sockets
<1>2. TypeOK'
  BY <1>1, Sizes DEF TypeOK, ClientsTypeOK, sockets, clients
<1>3. Held' = Held /\ In_hand = {} /\ In_hand' = {}
  <2>1. Held = (0..p - 1) \cup (i..new_conn_count - 1) /\ Held' = 0..p - 1
    BY <1>1 DEF Held
  <2> QED
    BY <1>1, <2>1, Sizes DEF In_hand
<1>4. Open_held' /\ Held_once'
  BY <1>1, <1>3 DEF TableInv, Open_held, Held_once
<1>5. Listener_first' /\ Counts'
  BY <1>1, Sizes DEF TableInv, Listener_first, Counts
<1>6. QueueIsFresh(pc = "store")'
  BY <1>1 DEF TableInv, QueueIsFresh
<1> QED
  BY <1>1, <1>2, <1>4, <1>5, <1>6, GoesOn DEF TableInv

-----------------------------------------------------------------------------
(* The handler, and the clients *)

(* Wherever the signal hits, the held slots are among those that the       *)
(* handler goes through: up to conn_count, and not below it.               *)
LEMMA HeldIsHandled ==
  ASSUME TypeOK, TableInv
  PROVE  Held \subseteq Handled
<1>1. new_conn_count \in {conn_count, conn_count + 1}
        \/ pc \notin {"serve", "read", "reply", "write", "compact"}
  BY DEF TableInv, Counts
<1>2. pc = "compact" => p <= i /\ i <= new_conn_count
  BY DEF TableInv, Counts
<1>3. CASE pc \in {"create", "listening"}
  BY <1>3 DEF Held
<1>4. CASE pc \in {"poll", "accept", "store"}
  BY <1>4, Sizes DEF Held, Handled, Slot
<1>5. CASE pc \in {"serve", "read", "reply", "write"}
  BY <1>1, <1>5, Sizes DEF Held, Handled, Slot
<1>6. CASE pc = "compact"
  BY <1>1, <1>2, <1>6, Sizes DEF Held, Handled, Slot
<1> QED
  BY <1>3, <1>4, <1>5, <1>6 DEF TypeOK

LEMMA HandlerInv == ASSUME IInv, close_handler PROVE IInv'
<1>1. /\ TypeOK /\ TableInv /\ status = "running" /\ UNCHANGED server
      /\ UNCHANGED <<pc, connections, remove_marks, conn_count, new_conn_count, i, p, arena>>
  BY DEF close_handler, IInv, server, table
<1>2. CASE /\ Handled \subseteq Slot
           /\ status' = "closed"
           /\ Disconnected({connections[s].fd : s \in Handled})
  <2>1. TypeOK'
    <3>1. ClientsTypeOK'
      BY <1>1, <1>2, DisconnectedType DEF TypeOK
    <3> QED
      BY <1>1, <3>1 DEF TypeOK
  <2>2. open' = open \ {connections[s].fd : s \in Handled} /\ backlog' = backlog
    BY <1>2 DEF Disconnected
  <2>3. open' \subseteq In_hand
    BY <1>1, <2>2, HeldIsHandled DEF TableInv, Open_held
  <2>4. HandlerClosesAll'
    BY <1>1, <2>2, <2>3 DEF HandlerClosesAll, In_hand
  <2> QED
    BY <1>2, <2>1, <2>4 DEF IInv
<1>3. CASE status' = "undefined" /\ UNCHANGED <<sockets, clients>>
  <2>1. TypeOK'
    BY <1>1, <1>3 DEF TypeOK, ClientsTypeOK, sockets, clients
  <2> QED
    BY <1>1, <1>3, <2>1, Ends
<1> QED
  BY <1>2, <1>3 DEF close_handler

(* No client breaks the invariant. *)
LEMMA ClientInv ==
  ASSUME IInv, NEW c \in Client, Client_step(c), UNCHANGED server
  PROVE  IInv'
<1>1. /\ TypeOK /\ ClientsTypeOK
      /\ UNCHANGED <<pc, connections, remove_marks, conn_count, new_conn_count, i, p, arena>>
  BY DEF IInv, TypeOK, server, table
<1>2. status = "running" /\ status' = "running"
  BY DEF Client_step, Connect, Begin, Send, Close, Reset, Talking
<1>3. TableInv
  BY <1>2 DEF IInv
<1>4. /\ open' = open /\ QueueIsFresh(pc = "store")'
      /\ backlog # <<>> => backlog' # <<>> /\ Head(backlog') = Head(backlog)
  <2>1. QueueIsFresh(pc = "store")
    BY <1>3 DEF TableInv
  <2> DEFINE accepted == pc = "store"
  <2>2. CASE accepted
    <3>1. QueueIsFresh(TRUE)
      BY <2>1, <2>2
    <3> QED
      BY <1>1, <2>2, <3>1, ClientStepQueue
  <2>3. CASE ~accepted
    <3>1. QueueIsFresh(FALSE)
      BY <2>1, <2>3
    <3> QED
      BY <1>1, <2>3, <3>1, ClientStepQueue
  <2> QED
    BY <2>2, <2>3
<1>5. Held' = Held
  BY <1>1 DEF Held
<1>6. In_hand' = In_hand
  <2>1. pc = "store" => backlog # <<>>
    BY <1>3 DEF TableInv, QueueIsFresh
  <2> QED
    BY <1>1, <1>4, <2>1 DEF In_hand
<1>7. Open_held' /\ Held_once' /\ Listener_first' /\ Counts'
  BY <1>1, <1>3, <1>4, <1>5, <1>6
     DEF TableInv, Open_held, Held_once, Listener_first, Counts
<1>8. TypeOK'
  <2>1. ClientsTypeOK'
    BY <1>1, ClientStepType
  <2> QED
    BY <1>1, <2>1 DEF TypeOK
<1> QED
  BY <1>2, <1>4, <1>7, <1>8, GoesOn DEF TableInv

-----------------------------------------------------------------------------
(* The invariant *)

(* main at its start. *)
LEMMA InitInv == Init => IInv
<1> SUFFICES ASSUME Init PROVE IInv
  OBVIOUS
<1>1. /\ pc = "create" /\ status = "running" /\ open = {} /\ backlog = <<>>
  BY DEF Init, ClientsInit
<1>2. Held = {} /\ In_hand = {}
  BY <1>1 DEF Held, In_hand
<1>3. QueueIsFresh(pc = "store")
  BY <1>1 DEF QueueIsFresh
<1>4. TableInv
  BY <1>1, <1>2, <1>3 DEF TableInv, Open_held, Held_once, Listener_first, Counts
<1> QED
  BY <1>1, <1>4, InitType DEF IInv, HandlerClosesAll

(* Every step keeps the invariant. *)
LEMMA NextInv == IInv /\ [Next]_vars => IInv'
<1> SUFFICES ASSUME IInv, [Next]_vars PROVE IInv'
  OBVIOUS
<1>1. CASE UNCHANGED vars
  <2>1. /\ UNCHANGED <<pc, connections, remove_marks, conn_count, new_conn_count, i, p, arena>>
        /\ UNCHANGED <<status, backlog, open, inbox, eof, reset>>
        /\ UNCHANGED <<todo, waiting, connects, requests>>
    BY <1>1 DEF vars, server, table, sockets, clients
  <2>2. TypeOK'
    BY <2>1 DEF IInv, TypeOK, ClientsTypeOK
  <2>3. Held' = Held /\ In_hand' = In_hand
    BY <2>1 DEF Held, In_hand
  <2>4. QueueIsFresh(pc = "store")' <=> QueueIsFresh(pc = "store")
    BY <2>1 DEF QueueIsFresh
  <2>5. TableInv' <=> TableInv
    BY <2>1, <2>3, <2>4 DEF TableInv, Open_held, Held_once, Listener_first, Counts
  <2>6. HandlerClosesAll'
    BY <2>1 DEF IInv, HandlerClosesAll
  <2> QED
    BY <2>1, <2>2, <2>5, <2>6 DEF IInv
<1>2. ASSUME NEW c \in Client, Client_step(c), UNCHANGED server PROVE IInv'
  BY <1>2, ClientInv
<1> QED
  BY <1>1, <1>2, CreateInv, StoreListenerInv, PollInv, AcceptInv, StoreInv, ServeInv,
     ReadInv, ReadFailedInv, ReplyInv, WriteUnblockedInv, WriteFailedInv,
     CompactCloseInv, CompactKeepInv, CompactedInv, HandlerInv
     DEF Next

(* The table and the count of ser_lin.c agree with what the kernel holds   *)
(* open at every step.                                                     *)
THEOREM Invariant == Spec => []IInv
BY InitInv, NextInv, PTL DEF Spec

(* Both indices of the compacting loop and both counts stay in the tables, *)
(* and no other variable leaves its type.                                  *)
THEOREM TypeCorrect == Spec => []TypeOK
<1>1. IInv => TypeOK
  BY DEF IInv
<1> QED
  BY <1>1, Invariant, PTL

(* At poll the table holds every open descriptor, once: the compacting     *)
(* loop of main lost none and closed none twice.                           *)
THEOREM PollsAllOpen == Spec => []TableHoldsOpen
<1>1. IInv => TableHoldsOpen
  <2> SUFFICES ASSUME IInv, At("poll")
               PROVE  /\ {connections[s].fd : s \in 0..conn_count - 1} = open
                      /\ Cardinality(open) = conn_count
    BY DEF TableHoldsOpen
  <2>1. TypeOK /\ TableInv /\ pc = "poll"
    BY DEF IInv, At
  <2>2. Held = 0..conn_count - 1 /\ In_hand = {}
    BY <2>1 DEF Held, In_hand
  <2>3. open = {connections[s].fd : s \in 0..conn_count - 1}
    BY <2>1, <2>2 DEF TableInv, Open_held
  <2>4. \A s, t \in 0..conn_count - 1 : connections[s].fd = connections[t].fd => s = t
    BY <2>1, <2>2 DEF TableInv, Held_once
  <2>5. Cardinality(open) = conn_count
    <3>1. \A x : x \in open <=> \E s \in 0..conn_count - 1 : x = connections[s].fd
      BY <2>3
    <3> QED
      BY <2>1, <2>4, <3>1, Sizes, SlotsCount
  <2> QED
    BY <2>3, <2>5
<1> QED
  BY <1>1, Invariant, PTL

(* Whenever SIGINT hits while the table is not full, close_handler closes  *)
(* every descriptor but the one that a call has returned and main has not  *)
(* stored yet; a full table makes it read behind its end ("undefined").    *)
THEOREM HandlerCloses == Spec => []HandlerClosesAll
<1>1. IInv => HandlerClosesAll
  BY DEF IInv
<1> QED
  BY <1>1, Invariant, PTL

=============================================================================
