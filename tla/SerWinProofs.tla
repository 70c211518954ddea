---------------------------- MODULE SerWinProofs ----------------------------
(***************************************************************************)
(* Proofs about ser_win.c, for any clients, requests, table and buffer:    *)
(* until Ctrl-C the table holds what is open, each descriptor once,        *)
(* through every step of the main thread; and from then on the thread of   *)
(* close_handler, which reads that table while the main thread compacts    *)
(* it, only ever meets descriptors that no new connection was given.       *)
(***************************************************************************)
EXTENDS SerWin, Integers, SequenceTheorems, FiniteSetTheorems, FunctionTheorems,
        WellFoundedInduction, TLAPS

-----------------------------------------------------------------------------
(* What the steps of clients leave of their types *)

(* The clients keep their types. *)
LEMMA ClientStepType ==
  ASSUME ClientsTypeOK, NEW c \in Client, Client_step(c)
  PROVE  ClientsTypeOK'
<1> USE DEF ClientsTypeOK, sockets, clients
<1>1. CASE Connect(c)
  <2>1. backlog' \in Seq(Client)
    BY <1>1, AppendProperties DEF Connect
  <2>2. connects' \in 0..MaxConnects
    BY <1>1, WebClientsAssumption DEF Connect
  <2> QED
    BY <1>1, <2>1, <2>2 DEF Connect
<1>2. CASE Begin(c)
  <2>1. todo' \in [Client -> Seq(Unit)]
    BY <1>2, WebClientsAssumption DEF Begin
  <2>2. requests' \in 0..MaxRequests
    BY <1>2, WebClientsAssumption DEF Begin
  <2> QED
    BY <1>2, <2>1, <2>2 DEF Begin
<1>3. CASE Send(c)
  <2>1. todo[c] \in Seq(Unit) /\ todo[c] # <<>> /\ inbox[c] \in Seq(Unit)
    BY <1>3 DEF Send
  <2>2. Tail(todo[c]) \in Seq(Unit) /\ Head(todo[c]) \in Unit
    BY <2>1, HeadTailProperties
  <2>3. Append(inbox[c], Head(todo[c])) \in Seq(Unit)
    BY <2>1, <2>2, AppendProperties
  <2> QED
    BY <1>3, <2>2, <2>3 DEF Send
<1>4. CASE Close(c)
  BY <1>4 DEF Close
<1>5. CASE Reset(c)
  BY <1>5 DEF Reset
<1> QED
  BY <1>1, <1>2, <1>3, <1>4, <1>5 DEF Client_step

(* Clients whose connections the program closed keep their types. *)
LEMMA DisconnectedType ==
  ASSUME ClientsTypeOK, NEW fds, Disconnected(fds),
         status' \in {"running", "closed", "failed", "undefined"}
  PROVE  ClientsTypeOK'
<1>1. <<>> \in Seq(Unit)
  BY EmptySeq
<1> QED
  BY <1>1 DEF ClientsTypeOK, Disconnected

-----------------------------------------------------------------------------
(* The queue of connections that wait for an accept *)

(* Clients open and close nothing at the server. *)
LEMMA ClientStepQueue ==
  ASSUME ClientsTypeOK, NEW c \in Client, Client_step(c),
         NEW accepted \in BOOLEAN, QueueIsFresh(accepted)
  PROVE  /\ open' = open /\ status' = status /\ status = "running"
         /\ QueueIsFresh(accepted)'
         /\ backlog # <<>> => backlog' # <<>> /\ Head(backlog') = Head(backlog)
<1>1. open' = open /\ status' = status /\ status = "running"
  BY DEF Client_step, Connect, Begin, Send, Close, Reset, Talking, sockets
<1>2. CASE backlog' = backlog
  BY <1>1, <1>2 DEF QueueIsFresh
<1>3. CASE c \notin open /\ ~Queued(c) /\ backlog' = Append(backlog, c)
  <2>1. /\ Len(backlog') = Len(backlog) + 1 /\ Len(backlog) \in Nat
        /\ \A k \in 1..Len(backlog) : backlog'[k] = backlog[k]
        /\ backlog'[Len(backlog) + 1] = c
        /\ backlog' # <<>>
    <3>1. backlog \in Seq(Client)
      BY DEF ClientsTypeOK
    <3> QED
      BY <1>3, <3>1, AppendProperties, LenProperties
  <2>2. \A k \in 1..Len(backlog) : backlog[k] # c
    BY <1>3 DEF Queued
  <2>3. QueueIsFresh(accepted)'
    BY <1>1, <1>3, <2>1, <2>2 DEF QueueIsFresh
  <2>4. backlog # <<>> => Head(backlog') = Head(backlog)
    BY <1>3, HeadTailAppend DEF ClientsTypeOK
  <2> QED
    BY <1>1, <2>1, <2>3, <2>4
<1> QED
  BY <1>2, <1>3 DEF Client_step, Connect, Begin, Send, Close, Reset, sockets

(* Once the first was accepted and has left the queue, or before it is. *)
LEMMA TailIsFresh ==
  ASSUME ClientsTypeOK, NEW accepted \in BOOLEAN, QueueIsFresh(accepted), backlog # <<>>,
         backlog' = Tail(backlog), open' = open \cup {Head(backlog)}
  PROVE  QueueIsFresh(FALSE)' /\ (~accepted => Head(backlog) \notin open)
<1>1. /\ Len(backlog) \in Nat /\ Len(backlog) >= 1
      /\ Len(backlog') = Len(backlog) - 1
      /\ \A k \in 1..Len(backlog') : backlog'[k] = backlog[k + 1]
      /\ Head(backlog) = backlog[1]
  BY HeadTailProperties, LenProperties, EmptySeq DEF ClientsTypeOK
<1> QED
  BY <1>1 DEF QueueIsFresh

(* Fewer open descriptors leave the queue as it was. *)
LEMMA FewerOpenFresh ==
  ASSUME QueueIsFresh(FALSE), UNCHANGED backlog, open' \subseteq open
  PROVE  QueueIsFresh(FALSE)'
  BY DEF QueueIsFresh

-----------------------------------------------------------------------------
(* Tables *)

(* The loops over the table find the next slot that they look for. *)
LEMMA MinIsMember ==
  ASSUME NEW S \in SUBSET Nat, S # {}
  PROVE  Min(S) \in S
<1>1. IsWellFoundedOn(OpToRel(<, Nat), Nat)
  BY NatLessThanWellFounded
<1>2. PICK x \in S : \A y \in S : ~ (<<y, x>> \in OpToRel(<, Nat))
  BY <1>1, WFMin
<1>3. \A y \in S : ~ (y < x)
  BY <1>2 DEF OpToRel
<1>4. \A y \in S : x <= y
  BY <1>3
<1> QED
  BY <1>4 DEF Min

(* A table with no descriptor twice has as many as it has slots. *)
LEMMA SlotsCount ==
  ASSUME NEW n \in Nat, NEW f, NEW T,
         \A x : x \in T <=> \E s \in 0..n - 1 : x = f[s].fd,
         \A s, t \in 0..n - 1 : f[s].fd = f[t].fd => s = t
  PROVE  IsFiniteSet(T) /\ Cardinality(T) = n
<1> DEFINE g == [s \in 0..n - 1 |-> f[s].fd]
<1>1. g \in Bijection(0..n - 1, T)
  <2>1. g \in [0..n - 1 -> T]
    OBVIOUS
  <2>2. \A s, t \in 0..n - 1 : g[s] = g[t] => s = t
    OBVIOUS
  <2>3. \A x \in T : \E s \in 0..n - 1 : g[s] = x
    OBVIOUS
  <2> QED
    BY <2>1, <2>2, <2>3, Fun_IsBij
<1>2. ExistsBijection(0..n - 1, T)
  BY <1>1 DEF ExistsBijection
<1>3. IsFiniteSet(0..n - 1) /\ Cardinality(0..n - 1) = n
  BY FS_Interval
<1> QED
  BY <1>2, <1>3, FS_Bijection

-----------------------------------------------------------------------------
(* Reads *)

(* A read takes at most as much as it asks for, and leaves the rest. *)
LEMMA TakenFromInbox ==
  ASSUME NEW s \in Seq(Unit), NEW n \in Nat
  PROVE  LET t == SubSeq(s, 1, Min({n, Len(s)})) IN
           /\ t \in Seq(Unit) /\ Len(t) <= n
           /\ SubSeq(s, Len(t) + 1, Len(s)) \in Seq(Unit)
<1> DEFINE m == Min({n, Len(s)})
           t == SubSeq(s, 1, m)
<1>1. Len(s) \in Nat /\ \A k \in 1..Len(s) : s[k] \in Unit
  BY LenProperties, ElementOfSeq
<1>2. m \in Nat /\ m <= n /\ m <= Len(s)
  <2>1. {n, Len(s)} \in SUBSET Nat /\ {n, Len(s)} # {}
    BY <1>1
  <2>2. m \in {n, Len(s)}
    BY <2>1, MinIsMember
  <2>3. PICK k \in {n, Len(s)} : k <= n /\ k <= Len(s)
    BY <1>1
  <2> QED
    BY <1>1, <2>2, <2>3 DEF Min
<1> HIDE DEF m
<1>3. t \in Seq(Unit) /\ Len(t) = m
  BY <1>1, <1>2, SubSeqProperties
<1>4. SubSeq(s, m + 1, Len(s)) \in Seq(Unit)
  BY <1>1, <1>2, SubSeqProperties
<1> QED
  BY <1>2, <1>3, <1>4 DEF m

-----------------------------------------------------------------------------
(* The invariant *)

(* The slots that hold a descriptor.  While the compacting loop runs these *)
(* are the survivors it has placed and those it has not looked at.         *)
Held ==
  CASE pc = "start"   -> {}
    [] pc = "poll"    -> 0..conn_count - 1
    [] pc = "compact" -> (0..p - 1) \cup (i..new_conn_count - 1)
    [] OTHER          -> 0..new_conn_count - 1

HeldFds == {connections[s].fd : s \in Held}

\* The handler's thread has closed the listener.
Closing == handler \notin {"idle", "listener"}

(* What the handler or WSACleanup closed stays in the table. *)
Open_held ==
  /\ open \subseteq HeldFds
  /\ ~Closing => open = HeldFds
  /\ Closing => Listener \notin open

Held_once == \A s, t \in Held : connections[s].fd = connections[t].fd => s = t

Held_fds == HeldFds \subseteq Fd

Listener_first ==
  IF pc = "start" THEN handler = "idle"
  ELSE conn_count >= 1 /\ connections[LISTEN_ID].fd = Listener

Counts ==
  /\ pc \notin {"start", "poll"} => conn_count <= new_conn_count
  /\ pc = "accept" => i = 1
  /\ pc = "serve" => i <= conn_count
  /\ pc \in {"recv", "reply", "flags"} => i <= conn_count - 1
  /\ pc = "compact" => p <= i /\ i <= new_conn_count

TableInv ==
  /\ Open_held
  /\ Held_once
  /\ Held_fds
  /\ Listener_first
  /\ Counts
  /\ QueueIsFresh(FALSE)

IInv == TypeOK /\ (status = "running" => TableInv)

-----------------------------------------------------------------------------
(* What the invariant says of the slot that a step works on *)

(* Indices and counts are numbers within the table. *)
LEMMA Sizes ==
  ASSUME TypeOK
  PROVE  /\ MaxConnections \in Nat /\ MaxConnections >= 1 /\ Buffer \in Nat /\ Buffer >= 1
         /\ conn_count \in Nat /\ conn_count <= MaxConnections
         /\ new_conn_count \in Nat /\ 1 <= new_conn_count /\ new_conn_count <= MaxConnections
         /\ i \in Nat /\ 1 <= i /\ i <= MaxConnections
         /\ p \in Nat /\ 1 <= p /\ p <= MaxConnections
         /\ conn_id \in Nat /\ 1 <= conn_id /\ conn_id <= MaxConnections
         /\ LISTEN_ID \in Slot
  BY SerWinAssumption DEF TypeOK, Slot, LISTEN_ID

(* The elements in use are elements of the table. *)
LEMMA HeldSlots ==
  ASSUME TypeOK, TableInv
  PROVE  Held \subseteq Slot /\ (pc # "start" => 0 \in Held)
<1>1. pc # "start" => conn_count >= 1
  BY DEF TableInv, Listener_first
<1>2. pc = "compact" => p <= i /\ i <= new_conn_count
  BY DEF TableInv, Counts
<1>3. CASE pc = "start"
  BY <1>3 DEF Held
<1>4. CASE pc = "poll"
  BY <1>1, <1>4, Sizes DEF Held, Slot
<1>5. CASE pc = "compact"
  BY <1>2, <1>5, Sizes DEF Held, Slot
<1>6. CASE pc \notin {"start", "poll", "compact"}
  BY <1>6, Sizes DEF Held, Slot
<1> QED
  BY <1>3, <1>4, <1>5, <1>6

(* Slot 0 is held by the listener, so that no other held slot is. *)
LEMMA HeldIsClient ==
  ASSUME TypeOK, TableInv, pc # "start", NEW s \in Held, s # 0
  PROVE  connections[s].fd \in Client
<1>1. 0 \in Held /\ connections[0].fd = Listener
  BY HeldSlots DEF TableInv, Listener_first, LISTEN_ID
<1>2. connections[s].fd # Listener
  BY <1>1 DEF TableInv, Held_once
<1> QED
  BY <1>2 DEF TableInv, Held_fds, HeldFds, Fd

(* What is received from and replied to is a client of the table. *)
LEMMA ServedIsClient ==
  ASSUME IInv, status = "running", pc \in {"recv", "reply", "flags"}
  PROVE  fd \in Client /\ i <= conn_count - 1 /\ i \in Slot
<1>1. TypeOK /\ TableInv /\ i <= conn_count - 1 /\ conn_count <= new_conn_count
  BY DEF IInv, TableInv, Counts
<1>2. Held = 0..new_conn_count - 1
  BY DEF Held
<1>3. i \in Held /\ i # 0 /\ i \in Slot
  BY <1>1, <1>2, Sizes DEF Slot
<1> QED
  BY <1>1, <1>3, HeldIsClient DEF fd

-----------------------------------------------------------------------------
(* The steps of the main thread *)

(* Both threads at their start. *)
LEMMA InitInv == Init => IInv
<1> SUFFICES ASSUME Init PROVE IInv
  OBVIOUS
<1>1. TypeOK
  <2>1. ClientsTypeOK
    BY WebClientsAssumption, EmptySeq DEF Init, ClientsInit, ClientsTypeOK
  <2> QED
    BY <2>1, SerWinAssumption, EmptySeq DEF Init, TypeOK
<1>2. pc = "start" /\ handler = "idle" /\ open = {} /\ backlog = <<>>
  BY DEF Init, ClientsInit
<1>3. Held = {} /\ HeldFds = {}
  BY <1>2 DEF Held, HeldFds
<1>4. QueueIsFresh(FALSE)
  BY <1>2 DEF QueueIsFresh
<1>5. TableInv
  BY <1>2, <1>3, <1>4
     DEF TableInv, Open_held, Held_once, Held_fds, Listener_first, Counts, Closing
<1> QED
  BY <1>1, <1>5 DEF IInv

\* Steps that end the program.
LEMMA Ends == ASSUME TypeOK', status' # "running" PROVE IInv'
  BY DEF IInv

(* Nothing is asked of a program that has failed. *)
LEMMA FailsInv ==
  ASSUME IInv, status' = "failed", UNCHANGED <<main, handler, conn_id, sockets, clients>>
  PROVE  IInv'
<1>1. TypeOK'
  BY DEF IInv, TypeOK, ClientsTypeOK, main, table, sockets, clients
<1> QED
  BY <1>1, Ends

LEMMA StartInv == ASSUME IInv, start PROVE IInv'
<1>1. /\ TypeOK /\ TableInv /\ pc = "start" /\ status = "running" /\ handler = "idle"
      /\ UNCHANGED <<remove_marks, new_conn_count, i, p, arena, handler, conn_id>>
      /\ UNCHANGED <<backlog, inbox, eof, reset, clients>>
  BY DEF start, At, IInv, TableInv, Listener_first
<1>2. CASE status' = "failed" /\ UNCHANGED <<pc, connections, conn_count, open>>
  <2>1. TypeOK'
    BY <1>1, <1>2 DEF TypeOK, ClientsTypeOK, clients
  <2> QED
    BY <1>2, <2>1, Ends
<1>3. CASE /\ open' = {Listener} /\ conn_count' = 1 /\ pc' = "poll" /\ UNCHANGED status
           /\ connections' = [connections EXCEPT ![LISTEN_ID].fd = Listener]
  <2>1. /\ connections' \in [Slot -> [fd : Fd \cup {No_socket}, in : BOOLEAN, hup : BOOLEAN]]
        /\ connections'[0].fd = Listener
    BY <1>1, <1>3, Sizes DEF TypeOK, Fd, LISTEN_ID
  <2>2. TypeOK'
    <3>1. ClientsTypeOK'
      BY <1>1, <1>3 DEF TypeOK, ClientsTypeOK, clients, Fd
    <3> QED
      BY <1>1, <1>3, <2>1, <3>1, Sizes DEF TypeOK
  <2>3. Held' = {0}
    BY <1>3 DEF Held
  <2>4. HeldFds' = {Listener}
    BY <2>1, <2>3 DEF HeldFds
  <2>5. QueueIsFresh(FALSE)'
    <3>1. \A k \in 1..Len(backlog) : backlog[k] \in Client
      BY <1>1, ElementOfSeq DEF TypeOK, ClientsTypeOK
    <3> QED
      BY <1>1, <1>3, <3>1, WebClientsAssumption DEF QueueIsFresh, TableInv
  <2>6. TableInv'
    <3>1. Open_held' /\ Held_fds'
      BY <1>1, <1>3, <2>4 DEF Open_held, Held_fds, Closing, Fd
    <3>2. Held_once'
      BY <2>3 DEF Held_once
    <3>3. Listener_first' /\ Counts'
      BY <1>3, <2>1 DEF Listener_first, Counts, LISTEN_ID
    <3> QED
      BY <2>5, <3>1, <3>2, <3>3 DEF TableInv
  <2> QED
    BY <2>2, <2>6 DEF IInv
<1> QED
  BY <1>2, <1>3 DEF start

LEMMA PollInv == ASSUME IInv, poll PROVE IInv'
<1>1. /\ TypeOK /\ TableInv /\ pc = "poll" /\ status = "running"
      /\ new_conn_count' = conn_count /\ i' = LISTEN_ID + 1
      /\ UNCHANGED <<remove_marks, conn_count, p, arena, handler, conn_id, status>>
      /\ UNCHANGED <<sockets, clients>> /\ UNCHANGED <<backlog, open>>
  BY DEF poll, At, IInv, sockets
<1>2. pc' \in {"accept", "serve"}
  BY DEF poll
<1>3. /\ connections' \in [Slot -> [fd : Fd \cup {No_socket}, in : BOOLEAN, hup : BOOLEAN]]
      /\ \A s \in Slot : connections'[s].fd = connections[s].fd
  <2>1. PICK both \in BOOLEAN : connections' =
          [s \in Slot |-> IF s < conn_count THEN Polled(s, both) ELSE connections[s]]
    BY DEF poll
  <2>2. \A s \in Slot : /\ Polled(s, both).fd = connections[s].fd
                        /\ Polled(s, both) \in [fd : Fd \cup {No_socket}, in : BOOLEAN, hup : BOOLEAN]
    BY <1>1 DEF Polled, TypeOK
  <2> QED
    BY <1>1, <2>1, <2>2 DEF TypeOK
<1>4. 1 <= conn_count
  BY <1>1 DEF TableInv, Listener_first
<1>5. TypeOK'
  <2>1. ClientsTypeOK'
    BY <1>1 DEF TypeOK, ClientsTypeOK, sockets, clients
  <2> QED
    BY <1>1, <1>2, <1>3, <1>4, <2>1, Sizes DEF TypeOK, LISTEN_ID
<1>6. Held' = Held /\ Held \subseteq Slot
  BY <1>1, <1>2, HeldSlots DEF Held
<1>7. HeldFds' = HeldFds
  BY <1>3, <1>6 DEF HeldFds
<1>8. Open_held' /\ Held_fds'
  BY <1>1, <1>7 DEF TableInv, Open_held, Held_fds, Closing
<1>9. Held_once'
  BY <1>1, <1>3, <1>6 DEF TableInv, Held_once
<1>10. Listener_first' /\ Counts'
  BY <1>1, <1>2, <1>3, <1>4, Sizes DEF TableInv, Listener_first, Counts, LISTEN_ID
<1>11. QueueIsFresh(FALSE)'
  BY <1>1 DEF TableInv, QueueIsFresh
<1> QED
  BY <1>1, <1>5, <1>8, <1>9, <1>10, <1>11 DEF IInv, TableInv

(* A connection is accepted only while the listener is open, and so before *)
(* the handler closes anything.                                            *)
LEMMA AcceptInv == ASSUME IInv, accept_connection PROVE IInv'
<1>1. /\ TypeOK /\ TableInv /\ pc = "accept" /\ status = "running" /\ Listener \in open
      /\ ~Closing
      /\ UNCHANGED <<i, p, arena, handler, conn_id, inbox, eof, reset, clients>>
  BY DEF accept_connection, At, IInv, Usable, TableInv, Open_held
<1>2. CASE pc' = "serve" /\ UNCHANGED <<table, status, backlog, open>>
  <2>1. /\ UNCHANGED <<connections, remove_marks, conn_count, new_conn_count>>
        /\ UNCHANGED <<status, backlog, open>>
    BY <1>2 DEF table
  <2>2. TypeOK'
    BY <1>1, <1>2, <2>1 DEF TypeOK, ClientsTypeOK, clients
  <2>3. Held' = Held /\ HeldFds' = HeldFds
    BY <1>1, <1>2, <2>1 DEF Held, HeldFds
  <2>4. Open_held' /\ Held_once' /\ Held_fds'
    BY <1>1, <2>1, <2>3 DEF TableInv, Open_held, Held_once, Held_fds, Closing
  <2>5. Listener_first' /\ Counts'
    BY <1>1, <1>2, <2>1, Sizes DEF TableInv, Listener_first, Counts
  <2>6. QueueIsFresh(FALSE)'
    BY <1>1, <2>1 DEF TableInv, QueueIsFresh
  <2> QED
    BY <2>2, <2>4, <2>5, <2>6 DEF IInv, TableInv
<1>3. CASE /\ backlog # <<>> /\ open' = open \cup {Head(backlog)} /\ backlog' = Tail(backlog)
           /\ status' = "undefined" /\ UNCHANGED table /\ UNCHANGED pc
  <2>1. Head(backlog) \in Client /\ Tail(backlog) \in Seq(Client)
    BY <1>1, <1>3, HeadTailProperties DEF TypeOK, ClientsTypeOK
  <2>2. TypeOK'
    BY <1>1, <1>3, <2>1 DEF TypeOK, ClientsTypeOK, clients, table, Fd
  <2> QED
    BY <1>3, <2>2, Ends
<1>4. CASE /\ backlog # <<>> /\ open' = open \cup {Head(backlog)} /\ backlog' = Tail(backlog)
           /\ new_conn_count < MaxConnections
           /\ connections' = [ connections EXCEPT ![new_conn_count] =
                                 [fd |-> Head(backlog), in |-> FALSE, hup |-> FALSE] ]
           /\ remove_marks' = [remove_marks EXCEPT ![new_conn_count] = FALSE]
           /\ new_conn_count' = new_conn_count + 1
           /\ UNCHANGED <<status, conn_count>> /\ UNCHANGED pc
  <2>1. Head(backlog) \in Client /\ Tail(backlog) \in Seq(Client)
    BY <1>1, <1>4, HeadTailProperties DEF TypeOK, ClientsTypeOK
  <2>2. QueueIsFresh(FALSE)' /\ Head(backlog) \notin open
    <3>1. ClientsTypeOK /\ QueueIsFresh(FALSE)
      BY <1>1 DEF TypeOK, TableInv
    <3> QED
      BY <1>4, <3>1, TailIsFresh
  <2>3. new_conn_count \in Slot
    BY <1>1, <1>4, Sizes DEF Slot
  <2>4. TypeOK'
    <3>1. /\ connections' \in [Slot -> [fd : Fd \cup {No_socket}, in : BOOLEAN, hup : BOOLEAN]]
          /\ remove_marks' \in [Slot -> BOOLEAN]
      BY <1>1, <1>4, <2>1 DEF TypeOK, Fd
    <3>2. new_conn_count' \in 1..MaxConnections
      BY <1>1, <1>4, Sizes
    <3>3. ClientsTypeOK'
      BY <1>1, <1>4, <2>1 DEF TypeOK, ClientsTypeOK, clients, Fd
    <3> QED
      BY <1>1, <1>4, <3>1, <3>2, <3>3 DEF TypeOK
  <2>5. /\ connections'[new_conn_count].fd = Head(backlog)
        /\ \A s \in Slot : s # new_conn_count => connections'[s] = connections[s]
    BY <1>1, <1>4, <2>3 DEF TypeOK
  <2>6. Held' = Held \cup {new_conn_count} /\ new_conn_count \notin Held
    <3>1. Held = 0..new_conn_count - 1 /\ Held' = 0..new_conn_count' - 1
      BY <1>1, <1>4 DEF Held
    <3> QED
      BY <1>1, <1>4, <3>1, Sizes
  <2>7. Held \subseteq Slot /\ 0 \in Held
    BY <1>1, HeldSlots
  <2>8. HeldFds' = HeldFds \cup {Head(backlog)}
    BY <2>5, <2>6, <2>7 DEF HeldFds
  <2>9. HeldFds = open
    BY <1>1 DEF TableInv, Open_held
  <2>10. Open_held' /\ Held_fds'
    BY <1>1, <1>4, <2>1, <2>8, <2>9 DEF TableInv, Open_held, Held_fds, Closing, Fd
  <2>11. Held_once'
    <3>1. \A s \in Held : connections[s].fd # Head(backlog)
      BY <2>2, <2>9 DEF HeldFds
    <3>2. \A s, t \in Held : connections[s].fd = connections[t].fd => s = t
      BY <1>1 DEF TableInv, Held_once
    <3> QED
      BY <2>5, <2>6, <2>7, <3>1, <3>2 DEF Held_once
  <2>12. Listener_first' /\ Counts'
    BY <1>1, <1>4, <2>5, <2>6, <2>7, Sizes DEF TableInv, Listener_first, Counts, LISTEN_ID
  <2> QED
    BY <2>2, <2>4, <2>10, <2>11, <2>12 DEF IInv, TableInv
<1> QED
  BY <1>2, <1>3, <1>4 DEF accept_connection

(* A step of the serving loop, which touches no table's descriptor. *)
LEMMA ServingInv ==
  ASSUME IInv, TypeOK', status = "running",
         pc \in {"serve", "recv", "reply", "flags"},
         pc' \in {"serve", "recv", "reply", "flags"},
         pc' = "serve" => i' <= conn_count,
         pc' # "serve" => i' <= conn_count - 1,
         UNCHANGED <<connections, conn_count, new_conn_count, handler, backlog, open>>
  PROVE  IInv'
<1>1. TableInv
  BY DEF IInv
<1>2. Held' = Held /\ HeldFds' = HeldFds
  BY DEF Held, HeldFds
<1>3. Open_held' /\ Held_once' /\ Held_fds'
  BY <1>1, <1>2 DEF TableInv, Open_held, Held_once, Held_fds, Closing
<1>4. Listener_first' /\ Counts'
  BY <1>1 DEF TableInv, Listener_first, Counts
<1>5. QueueIsFresh(FALSE)'
  BY <1>1 DEF TableInv, QueueIsFresh
<1> QED
  BY <1>3, <1>4, <1>5 DEF IInv, TableInv

LEMMA ServeInv == ASSUME IInv, serve PROVE IInv'
<1>1. /\ TypeOK /\ TableInv /\ pc = "serve" /\ status = "running"
      /\ UNCHANGED <<connections, remove_marks, conn_count, new_conn_count>>
      /\ UNCHANGED <<arena, handler, conn_id, status, sockets, clients>>
      /\ UNCHANGED <<backlog, open>>
  BY DEF serve, At, IInv, table, sockets
<1>2. CASE /\ Reported # {} /\ i' = Min(Reported)
           /\ pc' = IF connections[i'].in THEN "recv" ELSE "flags"
           /\ UNCHANGED p
  <2>1. i' \in 1..conn_count - 1
    <3>1. Reported \subseteq 1..conn_count - 1
      BY DEF Reported, Served
    <3>2. Reported \in SUBSET Nat /\ Reported # {}
      BY <1>2, <3>1
    <3>3. Min(Reported) \in Reported
      BY <3>2, MinIsMember
    <3> QED
      BY <1>2, <3>1, <3>3
  <2>2. pc' \in {"recv", "flags"}
    BY <1>2
  <2>3. TypeOK'
    BY <1>1, <1>2, <2>1, <2>2, Sizes DEF TypeOK, ClientsTypeOK, sockets, clients
  <2> QED
    BY <1>1, <2>1, <2>2, <2>3, ServingInv
<1>3. CASE i' = 1 /\ p' = First_place /\ pc' = "compact"
  <2>1. p' = 1
    BY <1>3 DEF First_place, LISTEN_ID
  <2>2. TypeOK'
    <3>1. ClientsTypeOK'
      BY <1>1 DEF TypeOK, ClientsTypeOK, sockets, clients
    <3> QED
      BY <1>1, <1>3, <2>1, <3>1, Sizes DEF TypeOK
  <2>3. Held' = Held
    <3>1. Held = 0..new_conn_count - 1 /\ Held' = (0..1 - 1) \cup (1..new_conn_count - 1)
      BY <1>1, <1>3, <2>1 DEF Held
    <3> QED
      BY <1>1, <3>1, Sizes
  <2>4. HeldFds' = HeldFds
    BY <1>1, <2>3 DEF HeldFds
  <2>5. Open_held' /\ Held_once' /\ Held_fds'
    BY <1>1, <2>3, <2>4 DEF TableInv, Open_held, Held_once, Held_fds, Closing
  <2>6. Listener_first' /\ Counts'
    BY <1>1, <1>3, <2>1, Sizes DEF TableInv, Listener_first, Counts
  <2>7. QueueIsFresh(FALSE)'
    BY <1>1 DEF TableInv, QueueIsFresh
  <2> QED
    BY <2>2, <2>5, <2>6, <2>7 DEF IInv, TableInv
<1> QED
  BY <1>2, <1>3 DEF serve

LEMMA RecvInv == ASSUME IInv, recv PROVE IInv'
<1>1. /\ TypeOK /\ TableInv /\ pc = "recv" /\ status = "running"
      /\ UNCHANGED <<connections, conn_count, new_conn_count, i, p, handler, conn_id>>
      /\ UNCHANGED <<backlog, open, eof, reset, clients>>
  BY DEF recv, At, IInv
<1>2. fd \in Client /\ i <= conn_count - 1 /\ i \in Slot
  BY <1>1, ServedIsClient
<1>3. Taken \in Seq(Unit) /\ SubSeq(inbox[fd], Len(Taken) + 1, Len(inbox[fd])) \in Seq(Unit)
  <2>1. inbox[fd] \in Seq(Unit) /\ Buffer \in Nat
    BY <1>1, <1>2, Sizes DEF TypeOK, ClientsTypeOK
  <2> QED
    BY <2>1, TakenFromInbox DEF Taken
<1>4. CASE status' = "failed" /\ UNCHANGED <<pc, remove_marks, arena, inbox>>
  <2>1. TypeOK'
    BY <1>1, <1>4 DEF TypeOK, ClientsTypeOK, clients
  <2> QED
    BY <1>4, <2>1, Ends
<1>5. CASE /\ arena' = arena \o Taken
           /\ inbox' = [inbox EXCEPT ![fd] = SubSeq(@, Len(Taken) + 1, Len(@))]
           /\ UNCHANGED <<pc, remove_marks, status>>
  <2>1. arena' \in Seq(Unit)
    BY <1>1, <1>3, <1>5, ConcatProperties DEF TypeOK
  <2>2. inbox' \in [Client -> Seq(Unit)]
    BY <1>1, <1>2, <1>3, <1>5 DEF TypeOK, ClientsTypeOK
  <2>3. TypeOK'
    BY <1>1, <1>5, <2>1, <2>2 DEF TypeOK, ClientsTypeOK, clients
  <2> QED
    BY <1>1, <1>2, <1>5, <2>3, ServingInv
<1>6. CASE Marked(TRUE) /\ pc' = "flags" /\ UNCHANGED <<arena, inbox, status>>
  <2>1. TypeOK'
    BY <1>1, <1>2, <1>6 DEF Marked, TypeOK, ClientsTypeOK, clients
  <2> QED
    BY <1>1, <1>2, <1>6, <2>1, ServingInv
<1>7. CASE pc' = "reply" /\ UNCHANGED <<remove_marks, arena, inbox, status>>
  <2>1. TypeOK'
    BY <1>1, <1>7 DEF TypeOK, ClientsTypeOK, clients
  <2> QED
    BY <1>1, <1>2, <1>7, <2>1, ServingInv
<1> QED
  BY <1>4, <1>5, <1>6, <1>7 DEF recv

LEMMA ReplyInv == ASSUME IInv, reply PROVE IInv'
<1>1. /\ TypeOK /\ TableInv /\ pc = "reply" /\ status = "running"
      /\ UNCHANGED <<connections, conn_count, new_conn_count, i, p, handler, conn_id>>
      /\ UNCHANGED <<backlog, open, inbox, eof, todo, connects, requests>>
  BY DEF reply, At, IInv
<1>2. fd \in Client /\ i <= conn_count - 1 /\ i \in Slot
  BY <1>1, ServedIsClient
<1>3. CASE status' = "failed" /\ UNCHANGED <<pc, remove_marks, arena, reset, waiting>>
  <2>1. TypeOK'
    BY <1>1, <1>3 DEF TypeOK, ClientsTypeOK
  <2> QED
    BY <1>3, <2>1, Ends
<1>4. ASSUME NEW mark \in BOOLEAN, Marked(mark), pc' = "flags", arena' = <<>>,
             UNCHANGED status,
             reset' \in [Client -> BOOLEAN], waiting' \in [Client -> BOOLEAN]
      PROVE  IInv'
  <2>1. TypeOK'
    BY <1>1, <1>2, <1>4, EmptySeq DEF Marked, TypeOK, ClientsTypeOK
  <2> QED
    BY <1>1, <1>2, <1>4, <2>1, ServingInv
<1>5. CASE Marked(TRUE) /\ pc' = "flags" /\ arena' = <<>> /\ UNCHANGED <<status, reset, waiting>>
  BY <1>1, <1>4, <1>5 DEF TypeOK, ClientsTypeOK
<1>6. CASE /\ Marked(FALSE) /\ pc' = "flags" /\ arena' = <<>> /\ UNCHANGED status
           /\ waiting' = [waiting EXCEPT ![fd] = FALSE]
           /\ \E r \in {FALSE, eof[fd]} : reset' = [reset EXCEPT ![fd] = r]
  <2>1. eof[fd] \in BOOLEAN
    BY <1>1, <1>2 DEF TypeOK, ClientsTypeOK
  <2>2. reset' \in [Client -> BOOLEAN] /\ waiting' \in [Client -> BOOLEAN]
    BY <1>1, <1>6, <2>1 DEF TypeOK, ClientsTypeOK
  <2> QED
    BY <1>4, <1>6, <2>2
<1> QED
  BY <1>3, <1>5, <1>6 DEF reply

LEMMA FlagsInv == ASSUME IInv, flags PROVE IInv'
<1>1. /\ TypeOK /\ TableInv /\ pc = "flags" /\ status = "running"
      /\ Marked(connections[i].hup) /\ i' = i + 1 /\ pc' = "serve"
      /\ UNCHANGED <<connections, conn_count, new_conn_count, p, arena, handler, conn_id>>
      /\ UNCHANGED <<status, sockets, clients>> /\ UNCHANGED <<backlog, open>>
  BY DEF flags, At, IInv, sockets
<1>2. i <= conn_count - 1 /\ i \in Slot
  BY <1>1, ServedIsClient
<1>3. i' \in 1..MaxConnections /\ i' <= conn_count
  BY <1>1, <1>2, Sizes
<1>4. remove_marks' \in [Slot -> BOOLEAN]
  BY <1>1, <1>2 DEF Marked, TypeOK
<1>5. TypeOK'
  BY <1>1, <1>3, <1>4 DEF TypeOK, ClientsTypeOK, sockets, clients
<1> QED
  BY <1>1, <1>3, <1>5, ServingInv

-----------------------------------------------------------------------------
(* The compacting loop *)

(* What the loop's head says of the slot it looks at. *)
LEMMA CompactedIsClient ==
  ASSUME IInv, At("compact"), i < new_conn_count
  PROVE  i \in Held /\ i \in Slot /\ p \in Slot /\ p <= i /\ fd \in Client
<1>1. TypeOK /\ TableInv /\ pc = "compact" /\ p <= i
  BY DEF IInv, At, TableInv, Counts
<1>2. i \in Held /\ i # 0 /\ i \in Slot /\ p \in Slot
  BY <1>1, Sizes DEF Held, Slot
<1> QED
  BY <1>1, <1>2, HeldIsClient DEF fd

LEMMA CompactCloseInv == ASSUME IInv, compact_close PROVE IInv'
<1>1. /\ TypeOK /\ TableInv /\ At("compact") /\ pc = "compact" /\ status = "running"
      /\ i < new_conn_count /\ Disconnected({fd}) /\ i' = i + 1
      /\ UNCHANGED <<pc, connections, remove_marks, conn_count, new_conn_count>>
      /\ UNCHANGED <<p, arena, handler, conn_id, status, backlog>>
      /\ open' = open \ {fd}
  BY DEF compact_close, At, IInv, table, Disconnected
<1>2. i \in Held /\ i \in Slot /\ p <= i /\ fd \in Client
  BY <1>1, CompactedIsClient
<1>3. TypeOK'
  <2>1. ClientsTypeOK'
    BY <1>1, DisconnectedType DEF TypeOK, ClientsTypeOK
  <2> QED
    BY <1>1, <2>1, Sizes DEF TypeOK
<1>4. Held' = Held \ {i}
  BY <1>1, <1>2, Sizes DEF Held
<1>5. Held_once'
  BY <1>1, <1>4 DEF TableInv, Held_once
<1>6. HeldFds' = HeldFds \ {fd}
  <2>1. \A s \in Held : connections[s].fd = fd <=> s = i
    BY <1>1, <1>2 DEF TableInv, Held_once, fd
  <2>2. HeldFds' = {connections[s].fd : s \in Held \ {i}}
    BY <1>1, <1>4 DEF HeldFds
  <2> QED
    BY <2>1, <2>2 DEF HeldFds
<1>7. Open_held' /\ Held_fds'
  BY <1>1, <1>6 DEF TableInv, Open_held, Held_fds, Closing
<1>8. Listener_first' /\ Counts'
  BY <1>1, <1>2, Sizes DEF TableInv, Listener_first, Counts
<1>9. QueueIsFresh(FALSE)'
  BY <1>1, FewerOpenFresh DEF TableInv
<1> QED
  BY <1>3, <1>5, <1>7, <1>8, <1>9 DEF IInv, TableInv

LEMMA CompactKeepInv == ASSUME IInv, compact_keep PROVE IInv'
<1>1. /\ TypeOK /\ TableInv /\ At("compact") /\ pc = "compact" /\ status = "running"
      /\ i < new_conn_count
      /\ connections' = [connections EXCEPT ![p] = connections[i]]
      /\ p' = p + 1 /\ i' = i + 1
      /\ UNCHANGED <<pc, remove_marks, conn_count, new_conn_count, arena, handler, conn_id>>
      /\ UNCHANGED <<status, sockets, clients>> /\ UNCHANGED <<backlog, open>>
  BY DEF compact_keep, At, IInv, Next_place, sockets
<1>2. i \in Held /\ i \in Slot /\ p \in Slot /\ p <= i
  BY <1>1, CompactedIsClient
<1>3. TypeOK'
  <2>1. connections' \in [Slot -> [fd : Fd \cup {No_socket}, in : BOOLEAN, hup : BOOLEAN]]
    BY <1>1, <1>2 DEF TypeOK
  <2>2. p' \in 1..MaxConnections /\ i' \in 1..MaxConnections
    BY <1>1, <1>2, Sizes
  <2>3. ClientsTypeOK'
    BY <1>1 DEF TypeOK, ClientsTypeOK, sockets, clients
  <2> QED
    BY <1>1, <2>1, <2>2, <2>3 DEF TypeOK
<1>4. /\ Held = (0..p - 1) \cup (i..new_conn_count - 1)
      /\ Held' = (0..p) \cup (i + 1..new_conn_count - 1)
  BY <1>1, Sizes DEF Held
<1>5. Held \subseteq Slot /\ Held' = (Held \ {i}) \cup {p} /\ (p # i => p \notin Held)
  BY <1>1, <1>2, <1>4, Sizes DEF Slot
<1>6. /\ connections'[p] = connections[i]
      /\ \A s \in Slot : s # p => connections'[s] = connections[s]
  BY <1>1, <1>2 DEF TypeOK
<1>7. HeldFds' = HeldFds
  BY <1>2, <1>5, <1>6 DEF HeldFds
<1>8. Open_held' /\ Held_fds'
  BY <1>1, <1>7 DEF TableInv, Open_held, Held_fds, Closing
<1>9. Held_once'
  <2>1. \A s, t \in Held : connections[s].fd = connections[t].fd => s = t
    BY <1>1 DEF TableInv, Held_once
  <2> QED
    BY <1>2, <1>5, <1>6, <2>1 DEF Held_once
<1>10. Listener_first' /\ Counts'
  BY <1>1, <1>2, <1>6, Sizes DEF TableInv, Listener_first, Counts, LISTEN_ID
<1>11. QueueIsFresh(FALSE)'
  BY <1>1 DEF TableInv, QueueIsFresh
<1> QED
  BY <1>3, <1>8, <1>9, <1>10, <1>11 DEF IInv, TableInv

LEMMA CompactedInv == ASSUME IInv, compacted PROVE IInv'
<1>1. /\ TypeOK /\ TableInv /\ pc = "compact" /\ status = "running"
      /\ i = new_conn_count /\ conn_count' = p /\ pc' = "poll"
      /\ UNCHANGED <<connections, remove_marks, new_conn_count, i, p, arena, handler, conn_id>>
      /\ UNCHANGED <<status, sockets, clients>> /\ UNCHANGED <<backlog, open>>
  BY DEF compacted, At, IInv, sockets
<1>2. TypeOK'
  BY <1>1, Sizes DEF TypeOK, ClientsTypeOK, sockets, clients
<1>3. Held' = Held
  <2>1. Held = (0..p - 1) \cup (i..new_conn_count - 1) /\ Held' = 0..p - 1
    BY <1>1 DEF Held
  <2> QED
    BY <1>1, <2>1, Sizes
<1>4. HeldFds' = HeldFds
  BY <1>1, <1>3 DEF HeldFds
<1>5. Open_held' /\ Held_once' /\ Held_fds'
  BY <1>1, <1>3, <1>4 DEF TableInv, Open_held, Held_once, Held_fds, Closing
<1>6. Listener_first' /\ Counts'
  BY <1>1, Sizes DEF TableInv, Listener_first, Counts
<1>7. QueueIsFresh(FALSE)'
  BY <1>1 DEF TableInv, QueueIsFresh
<1> QED
  BY <1>2, <1>5, <1>6, <1>7 DEF IInv, TableInv

-----------------------------------------------------------------------------
(* The handler's thread, and the clients *)

(* A step of the other thread closes descriptors, and no step of that      *)
(* thread comes back to before the listener was closed.                    *)
LEMMA OtherThreadInv ==
  ASSUME IInv, status = "running", TypeOK',
         UNCHANGED <<pc, connections, conn_count, new_conn_count, i, p, backlog>>,
         open' \subseteq open, pc = "start" => handler' = "idle",
         ~Closing' => ~Closing /\ open' = open,
         Closing' => Listener \notin open'
  PROVE  IInv'
<1>1. TableInv
  BY DEF IInv
<1>2. Held' = Held /\ HeldFds' = HeldFds
  BY DEF Held, HeldFds
<1>3. Open_held' /\ Held_once' /\ Held_fds'
  BY <1>1, <1>2 DEF TableInv, Open_held, Held_once, Held_fds
<1>4. Listener_first' /\ Counts'
  BY <1>1 DEF TableInv, Listener_first, Counts
<1>5. QueueIsFresh(FALSE)'
  BY <1>1, FewerOpenFresh DEF TableInv
<1> QED
  BY <1>3, <1>4, <1>5 DEF IInv, TableInv

LEMMA CtrlCInv == ASSUME IInv, ctrl_c PROVE IInv'
<1>1. /\ TypeOK /\ pc # "start" /\ status = "running"
      /\ handler = "idle" /\ handler' = "listener"
      /\ UNCHANGED <<pc, connections, remove_marks, conn_count, new_conn_count, i, p, arena>>
      /\ UNCHANGED <<conn_id, status, sockets, clients>> /\ UNCHANGED <<backlog, open>>
  BY DEF ctrl_c, Handler_at, First_closed, IInv, main, table, sockets
<1>2. TypeOK'
  BY <1>1 DEF TypeOK, ClientsTypeOK, sockets, clients
<1> QED
  BY <1>1, <1>2, OtherThreadInv DEF Closing

(* closesocket and WSACleanup, by the handler's thread. *)
LEMMA ClosesInv ==
  ASSUME IInv, status = "running", handler # "idle", NEW fds, Disconnected(fds),
         Closing \/ Listener \in fds,
         handler' \in {"connections", "cleanup", "done"}, conn_id' \in 1..MaxConnections,
         UNCHANGED <<main, status>>
  PROVE  IInv'
<1>1. /\ TypeOK /\ TableInv /\ open' = open \ fds /\ UNCHANGED backlog
      /\ UNCHANGED <<pc, connections, remove_marks, conn_count, new_conn_count, i, p, arena>>
  BY DEF IInv, Disconnected, main, table
<1>2. TypeOK'
  <2>1. ClientsTypeOK'
    BY <1>1, DisconnectedType DEF TypeOK, ClientsTypeOK
  <2> QED
    BY <1>1, <2>1 DEF TypeOK
<1>3. pc # "start"
  BY <1>1 DEF TableInv, Listener_first
<1>4. Closing' /\ Listener \notin open'
  BY <1>1 DEF Closing, TableInv, Open_held
<1> QED
  BY <1>1, <1>2, <1>3, <1>4, OtherThreadInv

LEMMA CloseListenerInv == ASSUME IInv, close_listener PROVE IInv'
<1>1. /\ TypeOK /\ TableInv /\ status = "running" /\ handler = "listener"
      /\ Disconnected({connections[LISTEN_ID].fd})
      /\ handler' = "connections" /\ conn_id' = 1 /\ UNCHANGED <<main, status>>
  BY DEF close_listener, Handler_at, IInv, LISTEN_ID
<1>2. Listener \in {connections[LISTEN_ID].fd}
  BY <1>1 DEF TableInv, Listener_first
<1>3. conn_id' \in 1..MaxConnections
  BY <1>1, Sizes
<1> QED
  BY <1>1, <1>2, <1>3, ClosesInv

LEMMA CloseConnectionInv == ASSUME IInv, close_connection PROVE IInv'
<1>1. /\ TypeOK /\ TableInv /\ status = "running" /\ handler = "connections" /\ Closing
      /\ UNCHANGED <<main, status>>
  BY DEF close_connection, Handler_at, IInv, Closing
<1>2. CASE /\ conn_id < conn_count /\ Disconnected({connections[conn_id].fd})
           /\ conn_id' = conn_id + 1 /\ UNCHANGED handler
  <2>1. conn_id' \in 1..MaxConnections
    BY <1>1, <1>2, Sizes
  <2> QED
    BY <1>1, <1>2, <2>1, ClosesInv
<1>3. CASE handler' = "cleanup" /\ UNCHANGED <<conn_id, sockets, clients>>
  <2>1. /\ UNCHANGED <<pc, connections, remove_marks, conn_count, new_conn_count, i, p, arena>>
        /\ UNCHANGED <<backlog, open>> /\ Closing'
    BY <1>1, <1>3 DEF main, table, sockets, Closing
  <2>2. TypeOK'
    BY <1>1, <1>3, <2>1 DEF TypeOK, ClientsTypeOK, sockets, clients
  <2>3. pc # "start" /\ Listener \notin open
    BY <1>1 DEF TableInv, Listener_first, Open_held
  <2> QED
    BY <1>1, <2>1, <2>2, <2>3, OtherThreadInv
<1> QED
  BY <1>2, <1>3 DEF close_connection

LEMMA CleanupInv == ASSUME IInv, cleanup PROVE IInv'
<1>1. /\ TypeOK /\ status = "running" /\ handler = "cleanup" /\ Closing
      /\ Disconnected(open) /\ handler' = "done" /\ UNCHANGED <<main, conn_id, status>>
  BY DEF cleanup, Handler_at, IInv, Closing
<1>2. conn_id' \in 1..MaxConnections
  BY <1>1 DEF TypeOK
<1> QED
  BY <1>1, <1>2, ClosesInv

(* No client breaks the invariant. *)
LEMMA ClientInv ==
  ASSUME IInv, NEW c \in Client, Client_step(c), UNCHANGED <<main, handler, conn_id>>
  PROVE  IInv'
<1>1. /\ TypeOK /\ ClientsTypeOK /\ Client_step(c)
      /\ UNCHANGED <<pc, connections, remove_marks, conn_count, new_conn_count, i, p, arena>>
  BY DEF IInv, TypeOK, main, table, Client_step
<1>2. status = "running" /\ status' = "running"
  BY DEF Client_step, Connect, Begin, Send, Close, Reset, Talking
<1>3. TableInv
  BY <1>2 DEF IInv
<1>4. open' = open /\ QueueIsFresh(FALSE)'
  <2>1. QueueIsFresh(FALSE)
    BY <1>3 DEF TableInv
  <2> QED
    BY <1>1, <2>1, ClientStepQueue
<1>5. TypeOK'
  <2>1. ClientsTypeOK'
    BY <1>1, ClientStepType
  <2> QED
    BY <1>1, <2>1 DEF TypeOK
<1>6. Held' = Held /\ HeldFds' = HeldFds
  BY <1>1 DEF Held, HeldFds
<1>7. Open_held' /\ Held_once' /\ Held_fds' /\ Listener_first' /\ Counts'
  BY <1>1, <1>3, <1>4, <1>6
     DEF TableInv, Open_held, Held_once, Held_fds, Listener_first, Counts, Closing
<1> QED
  BY <1>4, <1>5, <1>7 DEF IInv, TableInv

-----------------------------------------------------------------------------
(* The invariant *)

(* Every step keeps the invariant. *)
LEMMA NextInv == IInv /\ [Next]_vars => IInv'
<1> SUFFICES ASSUME IInv, [Next]_vars PROVE IInv'
  OBVIOUS
<1>1. CASE UNCHANGED vars
  <2>1. /\ UNCHANGED <<pc, connections, remove_marks, conn_count, new_conn_count, i, p, arena>>
        /\ UNCHANGED <<handler, conn_id, status, backlog, open, inbox, eof, reset>>
        /\ UNCHANGED <<todo, waiting, connects, requests>>
    BY <1>1 DEF vars, main, table, sockets, clients
  <2>2. TypeOK'
    BY <2>1 DEF IInv, TypeOK, ClientsTypeOK
  <2>3. Held' = Held /\ HeldFds' = HeldFds
    BY <2>1 DEF Held, HeldFds
  <2>4. QueueIsFresh(FALSE)' <=> QueueIsFresh(FALSE)
    BY <2>1 DEF QueueIsFresh
  <2>5. TableInv' <=> TableInv
    BY <2>1, <2>3, <2>4
       DEF TableInv, Open_held, Held_once, Held_fds, Listener_first, Counts, Closing
  <2> QED
    BY <2>1, <2>2, <2>5 DEF IInv
<1>2. CASE poll_failed \/ accept_failed
  BY <1>2, FailsInv DEF poll_failed, accept_failed
<1> QED
  BY <1>1, <1>2, StartInv, PollInv, AcceptInv, ServeInv, RecvInv, ReplyInv, FlagsInv,
     CompactCloseInv, CompactKeepInv, CompactedInv,
     CtrlCInv, CloseListenerInv, CloseConnectionInv, CleanupInv, ClientInv
     DEF Next

(* The table of ser_win.c and what Winsock holds open agree at every step  *)
(* of either thread, up to what close_handler has closed.                  *)
THEOREM Invariant == Spec => []IInv
BY InitInv, NextInv, PTL DEF Spec

(* The counts and indices of both threads stay in the tables, and no other *)
(* variable leaves its type.                                               *)
THEOREM TypeCorrect == Spec => []TypeOK
<1>1. IInv => TypeOK
  BY DEF IInv
<1> QED
  BY <1>1, Invariant, PTL

(* Until Ctrl-C, WSAPoll is given every open descriptor once and none that *)
(* was closed: the compacting loop of main lost none and kept none.        *)
THEOREM PollsAllOpen == Spec => []TableHoldsOpen
<1>1. IInv => TableHoldsOpen
  <2> SUFFICES ASSUME IInv, At("poll"), handler = "idle"
               PROVE  /\ {connections[s].fd : s \in 0..conn_count - 1} = open
                      /\ Cardinality(open) = conn_count
    BY DEF TableHoldsOpen
  <2>1. TypeOK /\ TableInv /\ Held = 0..conn_count - 1
    BY DEF IInv, At, Held
  <2>2. open = {connections[s].fd : s \in 0..conn_count - 1}
    BY <2>1 DEF TableInv, Open_held, Closing, HeldFds
  <2>3. \A s, t \in 0..conn_count - 1 : connections[s].fd = connections[t].fd => s = t
    BY <2>1 DEF TableInv, Held_once
  <2>4. Cardinality(open) = conn_count
    <3>1. \A x : x \in open <=> \E s \in 0..conn_count - 1 : x = connections[s].fd
      BY <2>2
    <3> QED
      BY <2>1, <2>3, <3>1, Sizes, SlotsCount
  <2> QED
    BY <2>2, <2>4
<1> QED
  BY <1>1, Invariant, PTL

(* No step of the main thread opens a descriptor once close_handler has    *)
(* closed the listener, so that the handles it goes on to read from the    *)
(* table are closed ones or the connections' own.                          *)
THEOREM NoneOpenedAgain == Spec => ClosedForGood
<1>1. IInv /\ [Next]_vars => [Closing => open' \subseteq open]_vars
  <2> SUFFICES ASSUME IInv, Next, Closing PROVE open' \subseteq open
    BY DEF vars
  <2> USE DEF sockets, main
  <2>1. status = "running"
    BY DEF Next, start, poll, poll_failed, accept_connection, accept_failed, serve, recv,
           reply, flags, compact_close, compact_keep, compacted, ctrl_c, close_listener,
           close_connection, cleanup, At, Handler_at,
           Client_step, Connect, Begin, Send, Close, Reset, Talking
  <2>2. pc # "start" /\ Listener \notin open
    BY <2>1 DEF IInv, TableInv, Listener_first, Open_held, Closing
  <2>3. ~start /\ ~accept_connection
    BY <2>2 DEF start, accept_connection, At, Usable
  <2>4. CASE compact_close \/ close_listener \/ close_connection \/ cleanup
    BY <2>4 DEF compact_close, close_listener, close_connection, cleanup, Disconnected
  <2>5. CASE \E c \in Client : Client_step(c)
    BY <2>5 DEF Client_step, Connect, Begin, Send, Close, Reset
  <2>6. CASE poll \/ poll_failed \/ accept_failed \/ serve \/ recv \/ reply \/ flags
             \/ compact_keep \/ compacted \/ ctrl_c
    BY <2>6 DEF poll, poll_failed, accept_failed, serve, recv, reply, flags, compact_keep,
                compacted, ctrl_c
  <2> QED
    BY <2>3, <2>4, <2>5, <2>6 DEF Next
<1> QED
  BY <1>1, Invariant, PTL DEF Spec, ClosedForGood, Closing

=============================================================================
