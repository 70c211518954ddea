---------------------------- MODULE PollerProofs ----------------------------
(***************************************************************************)
(* Proofs about the poller, for any sockets, events, data and creations:   *)
(* its arrays stay in step and in bounds, its count of ready elements is   *)
(* exact, a message belongs to the element the sweep stands on, and, as    *)
(* long as the assertion of net_poller_add does not fail, it is a ReadySet.*)
(***************************************************************************)
EXTENDS Poller, SequenceTheorems, FiniteSetTheorems, FunctionTheorems, TLAPS

FdRec == [fd : Socket, events : SUBSET Events, revents : {{}} \cup Ready]

(* The capacity of a limited poller never changes: net_poller_add stops    *)
(* the program before it would grow it.                                    *)
CapacityIsLimit == fd_limit # NET_POLLER_NOLIMIT => fd_capacity = fd_limit

(* The inductive invariant: MessageIsCurrent needs the arrays in step, and *)
(* the exact count needs event_pos in bounds through every removal.        *)
IInv ==
  /\ TypeOK
  /\ WithinCapacity
  /\ EventCountExact
  /\ MessageIsCurrent
  /\ CapacityIsLimit

-----------------------------------------------------------------------------
(* Sequences as functions. *)

(* A function on 1..n is a sequence. *)
LEMMA FunctionIsSeq ==
  ASSUME NEW S, NEW n \in Nat, NEW f \in [1..n -> S]
  PROVE  f \in Seq(S) /\ Len(f) = n
  OBVIOUS

(* The two arrays are functions on the same positions. *)
LEMMA Arrays ==
  ASSUME TypeOK, WithinCapacity
  PROVE  /\ fd_count \in Nat
         /\ fds \in [1..fd_count -> FdRec]
         /\ data \in [1..fd_count -> Data]
  BY LenProperties DEF TypeOK, WithinCapacity, fd_count, FdRec

(* The sets of positions that are counted are finite. *)
LEMMA UnvisitedFinite ==
  ASSUME NEW n \in Nat, NEW U \in SUBSET (1..n)
  PROVE  IsFiniteSet(U) /\ Cardinality(U) \in Nat /\ (Cardinality(U) = 0 <=> U = {})
<1>1. IsFiniteSet(1..n)
  BY FS_Interval
<1>2. IsFiniteSet(U)
  BY <1>1, FS_Subset
<1> QED
  BY <1>2, FS_CardinalityType, FS_EmptySet

-----------------------------------------------------------------------------
(* The invariant at the start *)

(* A new poller. *)
LEMMA InitInv == Init => IInv
<1> SUFFICES ASSUME NEW c \in Creations, net_poller_create(c.sockets, c.count_limit)
             PROVE  IInv
  BY DEF Init
<1> DEFINE n == Len(c.sockets)
<1>1. /\ c.sockets \in Seq([fd : Socket, info : Info])
      /\ \A i, j \in 1..n : c.sockets[i].fd = c.sockets[j].fd => i = j
      /\ c.count_limit \in Nat
      /\ c.count_limit # NET_POLLER_NOLIMIT => n <= c.count_limit
  BY CreationAssumption
<1>2. n \in Nat /\ \A i \in 1..n : c.sockets[i] \in [fd : Socket, info : Info]
  BY <1>1, LenProperties, ElementOfSeq
<1>3. /\ fds \in [1..n -> FdRec]
      /\ \A i \in 1..n : fds[i].fd = c.sockets[i].fd /\ fds[i].revents = {}
  BY <1>2 DEF net_poller_create, FdRec, Info
<1>4. data \in [1..n -> Data]
  BY <1>2 DEF net_poller_create, Info
<1>5. fds \in Seq(FdRec) /\ Len(fds) = n /\ data \in Seq(Data) /\ Len(data) = n
  BY <1>2, <1>3, <1>4, FunctionIsSeq
<1> HIDE DEF n
<1> USE DEF net_poller_create
<1>6. TypeOK
  <2>1. fd_limit \in Nat /\ fd_capacity \in Nat
    BY <1>1, <1>2 DEF n
  <2> QED
    BY <1>5, <2>1 DEF TypeOK, FdRec
<1>7. WithinCapacity
  BY <1>1, <1>2, <1>5 DEF WithinCapacity, fd_count, n
<1>8. EventCountExact
  <2>1. Unvisited = {}
    BY <1>2, <1>5 DEF Unvisited, fd_count
  <2> QED
    BY <1>2, <1>5, <2>1, FS_EmptySet DEF EventCountExact, fd_count
<1>9. MessageIsCurrent
  BY <1>1, <1>3, <1>5 DEF MessageIsCurrent, fd_count, n
<1>10. CapacityIsLimit
  BY DEF CapacityIsLimit
<1> QED
  BY <1>6, <1>7, <1>8, <1>9, <1>10 DEF IInv

-----------------------------------------------------------------------------
(* net_poller_add *)

(* A new socket goes behind everything the sweep still looks at. *)
LEMMA StoredKeeps ==
  ASSUME IInv, NEW s \in Socket \ Registered, NEW info \in Info, Stored(s, info)
  PROVE  /\ fds' \in Seq(FdRec) /\ data' \in Seq(Data)
         /\ Len(fds') = fd_count + 1 /\ Len(data') = fd_count + 1
         /\ \A i \in 1..fd_count : fds'[i] = fds[i] /\ data'[i] = data[i]
         /\ fds'[fd_count + 1] = [fd |-> s, events |-> info.events, revents |-> {}]
         /\ data'[fd_count + 1] = info.data
<1>1. /\ fds \in Seq(FdRec) /\ data \in Seq(Data)
      /\ Len(data) = fd_count
  BY DEF IInv, TypeOK, WithinCapacity, FdRec
<1>2. [fd |-> s, events |-> info.events, revents |-> {}] \in FdRec /\ info.data \in Data
  BY DEF Info, FdRec
<1> QED
  BY <1>1, <1>2, AppendProperties DEF Stored, fd_count

(* net_poller_add. *)
LEMMA AddInv ==
  ASSUME IInv, NEW s \in Socket, NEW info \in Info, net_poller_add(s, info)
  PROVE  IInv'
<1>1. CASE UNCHANGED <<fds, data, fd_capacity>>
  <2>1. UNCHANGED <<fds, data, fd_capacity, fd_limit, event_count, event_pos, msg>>
    BY <1>1 DEF net_poller_add
  <2>2. status' \in {"running", "limit", "aborted", "freed"}
    BY DEF net_poller_add, IInv, TypeOK
  <2> QED
    BY <2>1, <2>2 DEF IInv, TypeOK, WithinCapacity, EventCountExact, MessageIsCurrent,
       CapacityIsLimit, Unvisited, fd_count, Fd
<1>2. CASE ~ UNCHANGED <<fds, data, fd_capacity>>
  <2>1. /\ Stored(s, info)
        /\ UNCHANGED <<fd_limit, event_count, event_pos, msg, status>>
    BY <1>2 DEF net_poller_add
  <2>2. /\ fd_count \in Nat /\ fd_capacity \in Nat /\ fd_count <= fd_capacity
        /\ event_pos \in Int /\ event_pos <= fd_count
    BY Arrays DEF IInv, TypeOK, WithinCapacity, EventCountExact
  <2>3. fd_capacity' \in Nat /\ fd_count + 1 <= fd_capacity'
    BY <1>2, <2>2 DEF net_poller_add
  <2>4. /\ fds' \in Seq(FdRec) /\ data' \in Seq(Data)
        /\ Len(fds') = fd_count + 1 /\ Len(data') = fd_count + 1
        /\ \A i \in 1..fd_count : fds'[i] = fds[i]
        /\ fds'[fd_count + 1] = [fd |-> s, events |-> info.events, revents |-> {}]
        /\ \A i \in 1..fd_count : fds[i].fd # s
    BY <2>1, StoredKeeps DEF net_poller_add, Registered
  <2>5. TypeOK'
    BY <2>1, <2>3, <2>4 DEF IInv, TypeOK, FdRec
  <2>6. WithinCapacity'
    BY <2>3, <2>4 DEF WithinCapacity, fd_count
  <2>7. EventCountExact'
    <3>1. Unvisited' = Unvisited
      BY <2>1, <2>2, <2>4 DEF Unvisited, fd_count
    <3> QED
      BY <2>1, <2>2, <2>4, <3>1 DEF IInv, EventCountExact, fd_count
  <2>8. MessageIsCurrent'
    <3>1. ASSUME msg # None
          PROVE  /\ event_pos \in 0..fd_count - 1
                 /\ fds[event_pos + 1].fd = msg.socket
                 /\ fds[event_pos + 1].revents = msg.events
      BY <3>1 DEF IInv, MessageIsCurrent, Fd
    <3>2. \A i, j \in 1..fd_count : fds[i].fd = fds[j].fd => i = j
      BY DEF IInv, MessageIsCurrent
    <3>3. \A i, j \in 1..fd_count + 1 : fds'[i].fd = fds'[j].fd => i = j
      BY <2>2, <2>4, <3>2
    <3> QED
      BY <2>1, <2>2, <2>4, <3>1, <3>3 DEF MessageIsCurrent, Fd, fd_count
  <2>9. CapacityIsLimit'
    BY <1>2, <2>1 DEF net_poller_add, IInv, CapacityIsLimit, Stored, fd_count
  <2> QED
    BY <2>5, <2>6, <2>7, <2>8, <2>9 DEF IInv
<1> QED
  BY <1>1, <1>2

-----------------------------------------------------------------------------
(* net_poller_remove_this *)

\* Where the element of position i was before the removal.
Source(i) == IF i = event_pos + 1 THEN fd_count ELSE i

(* The hole is filled with the last element, or is the last element. *)
LEMMA FilledKeeps ==
  ASSUME IInv, net_poller_remove_this
  PROVE  /\ event_pos \in 0..fd_count - 1 /\ fd_count - 1 \in Nat
         /\ fds' \in Seq(FdRec) /\ data' \in Seq(Data)
         /\ Len(fds') = fd_count - 1 /\ Len(data') = fd_count - 1
         /\ \A i \in 1..fd_count - 1 :
              /\ Source(i) \in 1..fd_count
              /\ fds'[i] = fds[Source(i)] /\ data'[i] = data[Source(i)]
         /\ UNCHANGED <<event_pos, event_count>>
<1>1. /\ fd_count \in Nat
      /\ fds \in [1..fd_count -> FdRec] /\ data \in [1..fd_count -> Data]
  BY Arrays DEF IInv
<1>2. event_pos \in 0..fd_count - 1 /\ fd_count - 1 \in Nat
  BY <1>1 DEF net_poller_remove_this, IInv, MessageIsCurrent
<1>3. /\ fds'  = [i \in 1..fd_count - 1 |-> fds[Source(i)]]
      /\ data' = [i \in 1..fd_count - 1 |-> data[Source(i)]]
      /\ UNCHANGED <<event_pos, event_count>>
  BY <1>1, <1>2 DEF net_poller_remove_this, Filled, Source
<1>4. \A i \in 1..fd_count - 1 : Source(i) \in 1..fd_count
  BY <1>1, <1>2 DEF Source
<1> HIDE DEF Source
<1>5. fds' \in [1..fd_count - 1 -> FdRec] /\ data' \in [1..fd_count - 1 -> Data]
  BY <1>1, <1>3, <1>4
<1>6. /\ fds' \in Seq(FdRec) /\ Len(fds') = fd_count - 1
      /\ data' \in Seq(Data) /\ Len(data') = fd_count - 1
  BY <1>2, <1>5, FunctionIsSeq
<1>7. \A i \in 1..fd_count - 1 : fds'[i] = fds[Source(i)] /\ data'[i] = data[Source(i)]
  BY <1>3
<1> QED
  BY <1>2, <1>3, <1>4, <1>6, <1>7

(* net_poller_remove_this. *)
LEMMA RemoveInv == ASSUME IInv, net_poller_remove_this PROVE IInv'
<1>1. fd_count \in Nat /\ \A i, j \in 1..fd_count : fds[i].fd = fds[j].fd => i = j
  BY Arrays DEF IInv, MessageIsCurrent
<1>2. /\ msg' = None
      /\ UNCHANGED <<fd_limit, fd_capacity, status>>
  BY DEF net_poller_remove_this
<1>3. TypeOK'
  BY <1>2, FilledKeeps DEF IInv, TypeOK, FdRec
<1>4. WithinCapacity'
  BY <1>1, <1>2, FilledKeeps DEF IInv, TypeOK, WithinCapacity, fd_count
<1>5. EventCountExact'
  <2>1. Unvisited' = Unvisited
    BY <1>1, FilledKeeps DEF Unvisited, fd_count, Source
  <2> QED
    BY <1>1, <2>1, FilledKeeps DEF IInv, EventCountExact, fd_count
<1>6. MessageIsCurrent'
  <2>1. /\ fd_count' = fd_count - 1 /\ fd_count - 1 \in Nat
        /\ event_pos' = event_pos /\ event_pos \in 0..fd_count - 1
    BY FilledKeeps DEF fd_count
  <2>2. ASSUME NEW i \in 1..fd_count - 1, NEW j \in 1..fd_count - 1, fds'[i].fd = fds'[j].fd
        PROVE  i = j
    <3>1. fds[Source(i)].fd = fds[Source(j)].fd
      BY <2>2, FilledKeeps
    <3>2. Source(i) = Source(j)
      BY <1>1, <3>1, FilledKeeps
    <3> QED
      BY <1>1, <2>1, <3>2 DEF Source, fd_count
  <2> QED
    BY <1>2, <2>1, <2>2 DEF MessageIsCurrent
<1> QED
  BY <1>2, <1>3, <1>4, <1>5, <1>6 DEF IInv, CapacityIsLimit

-----------------------------------------------------------------------------
(* net_poller_modify_this *)

(* What net_poller_modify_this changes, and that it changes no more. *)
LEMMA ModifiedKeeps ==
  ASSUME IInv, NEW info \in Info, net_poller_modify_this(info)
  PROVE  /\ event_pos \in 0..fd_count - 1
         /\ fds' \in [1..fd_count -> FdRec] /\ data' \in [1..fd_count -> Data]
         /\ \A i \in 1..fd_count :
              /\ fds'[i].fd = fds[i].fd /\ fds'[i].revents = fds[i].revents
              /\ fds'[i].events = IF i = event_pos + 1 THEN info.events ELSE fds[i].events
              /\ data'[i] = IF i = event_pos + 1 THEN info.data ELSE data[i]
         /\ UNCHANGED <<fd_limit, fd_capacity, event_count, event_pos, msg, status>>
<1>1. /\ fd_count \in Nat
      /\ fds \in [1..fd_count -> FdRec] /\ data \in [1..fd_count -> Data]
      /\ event_pos \in 0..fd_count - 1
  BY Arrays DEF net_poller_modify_this, IInv, MessageIsCurrent
<1> QED
  BY <1>1 DEF net_poller_modify_this, FdRec, Info

(* Steps that leave the descriptors where they are keep them distinct. *)
LEMMA SameSockets ==
  ASSUME IInv, NEW f \in [1..fd_count -> FdRec], fds' = f,
         \A i \in 1..fd_count : f[i].fd = fds[i].fd
  PROVE  /\ fds' \in Seq(FdRec) /\ fd_count' = fd_count /\ fd_count \in Nat
         /\ \A i, j \in 1..fd_count : f[i].fd = f[j].fd => i = j
<1>1. fd_count \in Nat
  BY Arrays DEF IInv
<1>2. fds' \in Seq(FdRec) /\ Len(fds') = fd_count
  BY <1>1, FunctionIsSeq
<1> QED
  BY <1>1, <1>2 DEF IInv, MessageIsCurrent, fd_count

(* net_poller_modify_this. *)
LEMMA ModifyInv ==
  ASSUME IInv, NEW info \in Info, net_poller_modify_this(info)
  PROVE  IInv'
<1>1. /\ fds' \in Seq(FdRec) /\ fd_count' = fd_count /\ fd_count \in Nat
      /\ \A i, j \in 1..fd_count : fds'[i].fd = fds'[j].fd => i = j
  BY ModifiedKeeps, SameSockets
<1>2. data' \in Seq(Data) /\ Len(data') = fd_count
  <2>1. data' \in [1..fd_count -> Data]
    BY ModifiedKeeps
  <2> QED
    BY <1>1, <2>1, FunctionIsSeq
<1>3. TypeOK'
  BY <1>1, <1>2, ModifiedKeeps DEF IInv, TypeOK, FdRec
<1>4. WithinCapacity'
  BY <1>1, <1>2, ModifiedKeeps DEF IInv, WithinCapacity
<1>5. EventCountExact'
  <2>1. Unvisited' = Unvisited
    BY <1>1, ModifiedKeeps DEF Unvisited
  <2> QED
    BY <1>1, <2>1, ModifiedKeeps DEF IInv, EventCountExact
<1>6. MessageIsCurrent'
  BY <1>1, ModifiedKeeps DEF IInv, MessageIsCurrent, Fd
<1>7. CapacityIsLimit'
  BY ModifiedKeeps DEF IInv, CapacityIsLimit
<1> QED
  BY <1>3, <1>4, <1>5, <1>6, <1>7 DEF IInv

-----------------------------------------------------------------------------
(* net_poller_wait *)

(* poll writes revents and nothing else. *)
LEMMA PolledKeeps ==
  ASSUME IInv, NEW revents \in [1..fd_count -> SUBSET (Events \cup Conditions)],
         fds' = [i \in 1..fd_count |-> [fds[i] EXCEPT !.revents = revents[i]]]
  PROVE  /\ fd_count \in Nat /\ fd_count' = fd_count
         /\ fds' \in Seq(FdRec)
         /\ \A i \in 1..fd_count :
              /\ fds'[i].fd = fds[i].fd /\ fds'[i].events = fds[i].events
              /\ fds'[i].revents = revents[i]
         /\ \A i, j \in 1..fd_count : fds'[i].fd = fds'[j].fd => i = j
<1>1. /\ fd_count \in Nat
      /\ fds \in [1..fd_count -> FdRec]
  BY Arrays DEF IInv
<1>2. \A i \in 1..fd_count :
         [fd |-> fds[i].fd, events |-> fds[i].events, revents |-> revents[i]] \in FdRec
  <2>1. ASSUME NEW R \in SUBSET (Events \cup Conditions)
        PROVE  R \in {{}} \cup Ready
    BY DEF Ready
  <2> QED
    BY <1>1, <2>1 DEF FdRec
<1>3. fds' = [i \in 1..fd_count |->
                [fd |-> fds[i].fd, events |-> fds[i].events, revents |-> revents[i]]]
  BY <1>1 DEF FdRec
<1>4. /\ fds' \in [1..fd_count -> FdRec]
      /\ \A i \in 1..fd_count :
              /\ fds'[i].fd = fds[i].fd /\ fds'[i].events = fds[i].events
              /\ fds'[i].revents = revents[i]
  BY <1>2, <1>3
<1> QED
  BY <1>1, <1>4, SameSockets

\* Outside of a sweep nothing is left to hand out.
LEMMA Outside ==
  ASSUME IInv, event_pos = -1
  PROVE  Unvisited = {} /\ event_count = 0 /\ msg = None
<1>1. fd_count \in Nat
  BY Arrays DEF IInv
<1>2. Unvisited = {}
  BY <1>1 DEF Unvisited
<1>3. msg = None
  BY <1>1 DEF IInv, MessageIsCurrent
<1> QED
  BY <1>2, <1>3, FS_EmptySet DEF IInv, EventCountExact

(* net_poller_wait with events. *)
LEMMA EventInv ==
  ASSUME IInv, NEW revents \in [1..fd_count -> SUBSET (Events \cup Conditions)],
         net_poller_wait_Event(revents)
  PROVE  IInv'
<1> DEFINE ready == {i \in 1..fd_count : revents[i] # {}}
<1>1. /\ fds' = [i \in 1..fd_count |-> [fds[i] EXCEPT !.revents = revents[i]]]
      /\ event_count' = Cardinality(ready)
      /\ event_pos = -1 /\ event_pos' = fd_count
      /\ UNCHANGED <<data, fd_limit, fd_capacity, msg, status>>
  BY DEF net_poller_wait_Event, Polled
<1>2. /\ fd_count \in Nat /\ fd_count' = fd_count
      /\ fds' \in Seq(FdRec)
      /\ \A i \in 1..fd_count : fds'[i].revents = revents[i]
      /\ \A i, j \in 1..fd_count : fds'[i].fd = fds'[j].fd => i = j
  BY <1>1, PolledKeeps
<1>3. msg' = None
  BY <1>1, Outside
<1>4. Unvisited' = ready
  BY <1>1, <1>2 DEF Unvisited
<1>5. Cardinality(ready) \in Nat
  BY <1>2, UnvisitedFinite
<1> HIDE DEF ready
<1>6. TypeOK'
  BY <1>1, <1>2, <1>5 DEF IInv, TypeOK, FdRec
<1>7. WithinCapacity' /\ CapacityIsLimit'
  BY <1>1, <1>2 DEF IInv, WithinCapacity, CapacityIsLimit
<1>8. EventCountExact'
  BY <1>1, <1>2, <1>4 DEF EventCountExact
<1>9. MessageIsCurrent'
  BY <1>2, <1>3 DEF MessageIsCurrent
<1> QED
  BY <1>6, <1>7, <1>8, <1>9 DEF IInv

(* net_poller_wait without events. *)
LEMMA NothingInv ==
  ASSUME IInv, net_poller_wait_Nothing
  PROVE  IInv'
<1> DEFINE none == [i \in 1..fd_count |-> {}]
<1>1. /\ fds' = [i \in 1..fd_count |-> [fds[i] EXCEPT !.revents = none[i]]]
      /\ event_pos = -1
      /\ UNCHANGED <<data, fd_limit, fd_capacity, event_count, event_pos, msg, status>>
  BY DEF net_poller_wait_Nothing
<1>2. none \in [1..fd_count -> SUBSET (Events \cup Conditions)]
  OBVIOUS
<1> HIDE DEF none
<1>3. /\ fd_count \in Nat /\ fd_count' = fd_count
      /\ fds' \in Seq(FdRec)
      /\ \A i, j \in 1..fd_count : fds'[i].fd = fds'[j].fd => i = j
  BY <1>1, <1>2, PolledKeeps
<1>4. Unvisited' = {} /\ Unvisited = {} /\ msg' = None
  BY <1>1, <1>3, Outside DEF Unvisited
<1>5. TypeOK'
  BY <1>1, <1>3 DEF IInv, TypeOK, FdRec
<1>6. WithinCapacity' /\ CapacityIsLimit'
  BY <1>1, <1>3 DEF IInv, WithinCapacity, CapacityIsLimit
<1>7. EventCountExact'
  BY <1>1, <1>3, <1>4 DEF IInv, EventCountExact
<1>8. MessageIsCurrent'
  BY <1>3, <1>4 DEF MessageIsCurrent
<1> QED
  BY <1>5, <1>6, <1>7, <1>8 DEF IInv

-----------------------------------------------------------------------------
(* net_poller_next *)

(* The count being exact, the sweep goes on as long as an element is ready.*)
LEMMA FoundIsUnvisited ==
  ASSUME IInv, event_pos >= 0
  PROVE  Found = {i - 1 : i \in Unvisited}
<1>1. fd_count \in Nat /\ event_pos \in Nat /\ event_pos <= fd_count
  BY Arrays DEF IInv, TypeOK, EventCountExact
<1>2. Unvisited \subseteq 1..fd_count /\ event_count = Cardinality(Unvisited)
  BY DEF IInv, EventCountExact, Unvisited
<1>3. event_count \in Nat /\ (event_count = 0 <=> Unvisited = {})
  BY <1>1, <1>2, UnvisitedFinite
<1>4. {k \in 0..event_pos - 1 : fds[k + 1].revents # {}} = {i - 1 : i \in Unvisited}
  <2>1. ASSUME NEW k \in 0..event_pos - 1, fds[k + 1].revents # {}
        PROVE  k \in {i - 1 : i \in Unvisited}
    <3>1. k + 1 \in Unvisited /\ k = (k + 1) - 1
      BY <1>1, <2>1 DEF Unvisited
    <3> QED
      BY <3>1
  <2>2. ASSUME NEW i \in Unvisited
        PROVE  i - 1 \in 0..event_pos - 1 /\ fds[(i - 1) + 1].revents # {}
    BY <1>1 DEF Unvisited
  <2> QED
    BY <2>1, <2>2
<1>5. CASE Unvisited = {}
  BY <1>3, <1>5 DEF Found, Ready_below
<1>6. CASE Unvisited # {}
  BY <1>3, <1>4, <1>6 DEF Found, Ready_below, Fd
<1> QED
  BY <1>5, <1>6

\* The step that hands out the element of C index k.
HandsOut(k) ==
  /\ k \in Found
  /\ \A j \in Found : j <= k
  /\ msg' = [socket |-> Fd(k).fd, events |-> Fd(k).revents, data |-> Datum(k)]
  /\ event_pos' = k
  /\ event_count' = event_count - 1
  /\ UNCHANGED <<fds, data, fd_limit, fd_capacity, status>>

(* It takes exactly that element off those still to be handed out. *)
LEMMA HandedOut ==
  ASSUME IInv, event_pos >= 0, NEW k, HandsOut(k)
  PROVE  /\ fd_count \in Nat /\ k \in 0..fd_count - 1 /\ k < event_pos
         /\ k + 1 \in Unvisited
         /\ Unvisited' = Unvisited \ {k + 1}
         /\ msg' = [socket |-> fds[k + 1].fd, events |-> fds[k + 1].revents, data |-> data[k + 1]]
<1>1. fd_count \in Nat /\ event_pos \in Nat /\ event_pos <= fd_count
  BY Arrays DEF IInv, TypeOK, EventCountExact
<1>2. Unvisited \subseteq 1..fd_count
  BY DEF Unvisited
<1>3. k + 1 \in Unvisited /\ k \in Int
  BY <1>1, <1>2, FoundIsUnvisited DEF HandsOut
<1>4. \A i \in Unvisited : i - 1 <= k
  BY FoundIsUnvisited DEF HandsOut
<1>5. k \in 0..fd_count - 1 /\ k < event_pos
  BY <1>1, <1>3 DEF Unvisited
<1>6. Unvisited' = Unvisited \ {k + 1}
  BY <1>1, <1>2, <1>3, <1>4, <1>5 DEF HandsOut, Unvisited, fd_count
<1> QED
  BY <1>1, <1>3, <1>5, <1>6 DEF HandsOut, Fd, Datum

(* net_poller_next. *)
LEMMA NextInv ==
  ASSUME IInv, net_poller_next
  PROVE  IInv'
<1>1. event_pos >= 0 /\ UNCHANGED <<fds, data, fd_limit, fd_capacity, status>>
  BY DEF net_poller_next
<1>2. fds \in [1..fd_count -> FdRec] /\ data \in [1..fd_count -> Data]
  BY Arrays DEF IInv
<1>3. WithinCapacity' /\ CapacityIsLimit'
  BY <1>1 DEF IInv, WithinCapacity, CapacityIsLimit, fd_count
<1>4. CASE \E k : HandsOut(k)
  <2>1. PICK k : HandsOut(k)
    BY <1>4
  <2>2. /\ fd_count \in Nat /\ k \in 0..fd_count - 1 /\ k + 1 \in Unvisited
        /\ Unvisited' = Unvisited \ {k + 1}
        /\ msg' = [socket |-> fds[k + 1].fd, events |-> fds[k + 1].revents, data |-> data[k + 1]]
    BY <1>1, <2>1, HandedOut
  <2>3. event_count = Cardinality(Unvisited) /\ Unvisited \in SUBSET (1..fd_count)
    BY DEF IInv, EventCountExact, Unvisited
  <2>4. /\ event_count' = Cardinality(Unvisited') /\ event_count' \in Nat
    <3>1. IsFiniteSet(Unvisited)
      BY <2>2, <2>3, UnvisitedFinite
    <3>2. Cardinality(Unvisited \ {k + 1}) = Cardinality(Unvisited) - 1
      BY <2>2, <3>1, FS_RemoveElement
    <3>3. Cardinality(Unvisited \ {k + 1}) \in Nat
      BY <2>2, <2>3, UnvisitedFinite
    <3> QED
      BY <2>1, <2>2, <2>3, <3>2, <3>3 DEF HandsOut
  <2>5. msg' \in [socket : Socket, events : Ready, data : Data]
    BY <1>2, <2>2 DEF Unvisited, FdRec, Ready
  <2>6. event_pos' = k
    BY <2>1 DEF HandsOut
  <2>7. TypeOK'
    BY <1>1, <2>2, <2>4, <2>5, <2>6 DEF IInv, TypeOK
  <2>8. EventCountExact'
    BY <1>1, <2>2, <2>4, <2>6 DEF EventCountExact, fd_count
  <2>9. MessageIsCurrent'
    BY <1>1, <2>2, <2>6 DEF IInv, MessageIsCurrent, Fd, fd_count
  <2> QED
    BY <1>3, <2>7, <2>8, <2>9 DEF IInv
<1>5. CASE Found = {} /\ Exhausted
  <2>1. msg' = None /\ event_pos' = -1 /\ event_count' = event_count
    BY <1>5 DEF Exhausted
  <2>2. fd_count \in Nat
    BY Arrays DEF IInv
  <2>3. Unvisited = {} /\ Unvisited' = {}
    BY <1>1, <1>5, <2>1, <2>2, FoundIsUnvisited DEF Unvisited, fd_count
  <2>4. TypeOK'
    BY <1>1, <2>1 DEF IInv, TypeOK
  <2>5. EventCountExact'
    BY <1>1, <2>1, <2>2, <2>3 DEF IInv, EventCountExact, fd_count
  <2>6. MessageIsCurrent'
    BY <1>1, <2>1 DEF IInv, MessageIsCurrent, fd_count
  <2> QED
    BY <1>3, <2>4, <2>5, <2>6 DEF IInv
<1> QED
  BY <1>4, <1>5 DEF net_poller_next, HandsOut

-----------------------------------------------------------------------------
(* The invariant *)

(* Every step keeps the invariant. *)
LEMMA NextStepInv == IInv /\ [Next]_vars => IInv'
<1> SUFFICES ASSUME IInv, [Next]_vars PROVE IInv'
  OBVIOUS
<1>1. CASE net_poller_free \/ UNCHANGED vars
  <2>1. UNCHANGED <<fds, data, fd_limit, fd_capacity, event_count, event_pos, msg>>
    BY <1>1 DEF net_poller_free, vars
  <2>2. status' \in {"running", "limit", "aborted", "freed"}
    BY <1>1 DEF net_poller_free, vars, IInv, TypeOK
  <2> QED
    BY <2>1, <2>2 DEF IInv, TypeOK, WithinCapacity, EventCountExact, MessageIsCurrent,
       CapacityIsLimit, Unvisited, fd_count, Fd
<1> QED
  BY <1>1, AddInv, RemoveInv, ModifyInv, EventInv, NothingInv, NextInv DEF Next

(* It holds always. *)
LEMMA Invariant == Spec => []IInv
  BY InitInv, NextStepInv, PTL DEF Spec

(* Every variable of the poller keeps its type; event_count in particular  *)
(* never goes below zero, whatever is removed during a sweep.              *)
THEOREM TypeCorrect == Spec => []TypeOK
  BY Invariant, PTL DEF IInv

(* net_poller_add writes both arrays in bounds, and net_poller_remove_this *)
(* leaves as many elements in one as in the other.                         *)
THEOREM ArraysInStep == Spec => []WithinCapacity
  BY Invariant, PTL DEF IInv

(* The count that ends the loop of net_poller_next is that of the ready    *)
(* elements it has not reached, so it neither stops short nor runs on.     *)
THEOREM CountExact == Spec => []EventCountExact
  BY Invariant, PTL DEF IInv

(* get_this, modify_this and remove_this act on the element of the socket  *)
(* in the user's message.                                                  *)
THEOREM MessageCurrent == Spec => []MessageIsCurrent
  BY Invariant, PTL DEF IInv

-----------------------------------------------------------------------------
(* The set of sockets that the arrays stand for *)

Registrations == [s \in Registered |-> Registration(s)]

Pending == [s \in {fds[i].fd : i \in Unvisited} |-> fds[Index(s)].revents]

(* Looking a socket up finds the one element that holds it. *)
LooksUp ==
  /\ fd_count \in Nat
  /\ \A i \in 1..fd_count :
       /\ fds[i].fd \in Registered
       /\ Registration(fds[i].fd) = [events |-> fds[i].events, data |-> data[i]]
       /\ fds[Index(fds[i].fd)].revents = fds[i].revents
  /\ Unvisited \subseteq 1..fd_count

(* A descriptor that stands once is found where it stands. *)
LEMMA IndexIsUnique ==
  ASSUME NEW n, NEW f, NEW i \in 1..n,
         \A j, k \in 1..n : f[j].fd = f[k].fd => j = k
  PROVE  (CHOOSE j \in 1..n : f[j].fd = f[i].fd) = i
  OBVIOUS

(* The arrays can be read as a map from sockets. *)
LEMMA LooksUpHolds == IInv => LooksUp
<1> SUFFICES ASSUME IInv PROVE LooksUp
  OBVIOUS
<1>1. fd_count \in Nat
  BY Arrays DEF IInv
<1>2. ASSUME NEW i \in 1..fd_count
      PROVE  Index(fds[i].fd) = i
  BY IndexIsUnique DEF IInv, MessageIsCurrent, Index
<1> QED
  BY <1>1, <1>2 DEF LooksUp, Registered, Registration, Unvisited

(* There are as many sockets as elements. *)
LEMMA CountIsCardinality ==
  ASSUME IInv
  PROVE  IsFiniteSet(Registered) /\ Cardinality(Registered) = fd_count
<1>1. fd_count \in Nat /\ \A i, j \in 1..fd_count : fds[i].fd = fds[j].fd => i = j
  BY Arrays DEF IInv, MessageIsCurrent
<1> DEFINE f == [i \in 1..fd_count |-> fds[i].fd]
<1>2. f \in Bijection(1..fd_count, Registered)
  <2>1. f \in [1..fd_count -> Registered]
    BY DEF Registered
  <2>2. \A i, j \in 1..fd_count : f[i] = f[j] => i = j
    BY <1>1
  <2>3. \A s \in Registered : \E i \in 1..fd_count : f[i] = s
    BY DEF Registered
  <2> QED
    BY <2>1, <2>2, <2>3, Fun_IsBij
<1>3. ExistsBijection(1..fd_count, Registered)
  BY <1>2 DEF ExistsBijection
<1>4. IsFiniteSet(1..fd_count) /\ Cardinality(1..fd_count) = fd_count
  BY <1>1, FS_Interval
<1> QED
  BY <1>3, <1>4, FS_Bijection

(* The queue of the set is empty when no ready element is left to hand     *)
(* out.                                                                    *)
LEMMA NonePending ==
  /\ Unvisited = {} => Pending = <<>>
  /\ Unvisited # {} => Pending # <<>>
<1>1. DOMAIN <<>> = {}
  OBVIOUS
<1>2. Unvisited = {} => Pending = <<>>
  BY <1>1 DEF Pending
<1>3. Unvisited # {} => DOMAIN Pending # {}
  BY DEF Pending
<1> QED
  BY <1>1, <1>2, <1>3

(* What is pending depends on the sockets and revents of what the sweep    *)
(* still has to look at, and on nothing else.                              *)
LEMMA SamePending ==
  ASSUME IInv, IInv', Unvisited' = Unvisited,
         \A i \in Unvisited : fds'[i].fd = fds[i].fd /\ fds'[i].revents = fds[i].revents
  PROVE  Pending' = Pending
<1>1. LooksUp /\ LooksUp'
  BY LooksUpHolds, PTL
<1>2. {fds'[i].fd : i \in Unvisited'} = {fds[i].fd : i \in Unvisited}
  OBVIOUS
<1>3. ASSUME NEW s \in {fds[i].fd : i \in Unvisited}
      PROVE  fds'[Index(s)'].revents = fds[Index(s)].revents
  <2>1. PICK i \in Unvisited : s = fds[i].fd
    OBVIOUS
  <2>2. fds[Index(s)].revents = fds[i].revents
    BY <1>1, <2>1 DEF LooksUp
  <2>3. fds'[Index(s)'].revents = fds'[i].revents
    BY <1>1, <2>1 DEF LooksUp
  <2> QED
    BY <2>1, <2>2, <2>3
<1> QED
  BY <1>2, <1>3 DEF Pending

(* Both modules count with the same operator of FiniteSets. *)
LEMMA SameCardinality == \A S : Set!Cardinality(S) = Cardinality(S)
  BY DEF Set!Cardinality, Cardinality, Set!IsFiniteSet, IsFiniteSet

(* A new poller is an empty set. *)
LEMMA InitImplements == Init => Set!Init
<1> SUFFICES ASSUME Init PROVE Set!Init
  OBVIOUS
<1>1. IInv
  BY InitInv
<1>2. fd_limit \in Nat /\ event_pos = -1 /\ msg = None /\ status = "running"
  BY <1>1 DEF Init, net_poller_create, IInv, TypeOK
<1>3. ASSUME NEW s \in Registered
      PROVE  Registration(s) \in Info
  <2>1. fds \in [1..fd_count -> FdRec] /\ data \in [1..fd_count -> Data]
    BY <1>1, Arrays DEF IInv
  <2>2. PICK i \in 1..fd_count : s = fds[i].fd
    BY DEF Registered
  <2>3. Registration(s) = [events |-> fds[i].events, data |-> data[i]]
    BY <1>1, <2>2, LooksUpHolds DEF LooksUp
  <2>4. fds[i].events \in SUBSET Events /\ data[i] \in Data
    BY <2>1, <2>2 DEF FdRec
  <2> QED
    BY <2>3, <2>4 DEF Info
<1>4. Registered \in SUBSET Socket
  BY <1>1, Arrays DEF IInv, Registered, FdRec
<1>5. fd_limit # 0 => Cardinality(Registered) <= fd_limit
  BY <1>1, CountIsCardinality
  DEF IInv, WithinCapacity, CapacityIsLimit, NET_POLLER_NOLIMIT
<1>6. Pending = <<>>
  BY <1>1, <1>2, Outside, NonePending
<1>7. [s \in Registered |-> Registration(s)] \in [Registered -> Set!Info]
  BY <1>3 DEF Set!Info, Info
<1>8. fd_limit # 0 => Set!Cardinality(Registered) <= fd_limit
  BY <1>5, SameCardinality
<1>9. \E S \in SUBSET Socket :
         /\ [s \in Registered |-> Registration(s)] \in [S -> Set!Info]
         /\ fd_limit # 0 => Set!Cardinality(S) <= fd_limit
  BY Zenon, <1>4, <1>7, <1>8
<1>10. [s \in {fds[i].fd : i \in Unvisited} |-> fds[Index(s)].revents] = <<>>
  BY <1>6 DEF Pending
<1> QED
  BY <1>2, <1>9, <1>10 DEF Set!Init

-----------------------------------------------------------------------------
(* Every step is one of the set, or changes nothing of it *)

(* The set is a function of the arrays and the place in them. *)
LEMMA SameArraysSameSet ==
  ASSUME UNCHANGED <<fds, data, event_pos>>
  PROVE  Registrations' = Registrations /\ Pending' = Pending
  BY DEF Registrations, Pending, Registered, Registration, Index, Unvisited, fd_count

(* With the last disjunct excluded, the poller is full exactly at its      *)
(* limit, as the set is.                                                   *)
LEMMA AddImplements ==
  ASSUME IInv, IInv', NEW s \in Socket, NEW info \in Info, net_poller_add(s, info),
         status' # "aborted"
  PROVE  Set!Add(s, info)
<1>1. s \notin Registered /\ UNCHANGED <<fd_limit, event_count, event_pos, msg>>
  BY DEF net_poller_add
<1>2. /\ Set!Cardinality(Registered) = fd_count /\ fd_count \in Nat
      /\ fd_count <= fd_capacity /\ fd_capacity \in Nat
  BY CountIsCardinality, SameCardinality, Arrays DEF IInv, WithinCapacity, TypeOK
<1>3. CASE Stored(s, info) /\ UNCHANGED status
  <2>1. fd_limit = 0 \/ Set!Cardinality(Registered) < fd_limit
    BY <1>2, <1>3 DEF net_poller_add, IInv, CapacityIsLimit, Stored, NET_POLLER_NOLIMIT
  <2>2. /\ fd_count' = fd_count + 1
        /\ \A i \in 1..fd_count : fds'[i] = fds[i] /\ data'[i] = data[i]
        /\ fds'[fd_count + 1] = [fd |-> s, events |-> info.events, revents |-> {}]
        /\ data'[fd_count + 1] = info.data
    BY <1>1, <1>3, StoredKeeps DEF fd_count
  <2>3. LooksUp /\ LooksUp'
    BY LooksUpHolds, PTL
  <2>4. Registered' = Registered \cup {s}
    BY <1>2, <2>2 DEF Registered
  <2>5. ASSUME NEW t \in Registered'
        PROVE  Registration(t)' = IF t = s THEN info ELSE Registration(t)
    <3>1. PICK i \in 1..fd_count + 1 : t = fds'[i].fd
      BY <2>2 DEF Registered
    <3>2. Registration(t)' = [events |-> fds'[i].events, data |-> data'[i]]
      BY <2>2, <2>3, <3>1 DEF LooksUp
    <3>3. CASE i = fd_count + 1
      BY <2>2, <3>1, <3>2, <3>3 DEF Info
    <3>4. CASE i \in 1..fd_count
      BY <1>1, <2>2, <2>3, <3>1, <3>2, <3>4 DEF LooksUp
    <3> QED
      BY <1>2, <3>3, <3>4
  <2>6. Registrations' = [t \in DOMAIN Registrations \cup {s} |->
                            IF t = s THEN info ELSE Registrations[t]]
    BY <2>4, <2>5 DEF Registrations
  <2>7. Pending' = Pending
    <3>1. event_pos <= fd_count /\ event_pos \in Nat \cup {-1} /\ event_pos' = event_pos
      BY <1>1 DEF IInv, EventCountExact, TypeOK
    <3>2. Unvisited' = Unvisited
      BY <1>2, <2>2, <3>1 DEF Unvisited
    <3> QED
      BY <2>2, <2>3, <3>2, SamePending DEF LooksUp
  <2> QED
    BY <1>1, <1>3, <2>1, <2>6, <2>7 DEF Set!Add, Registrations, Pending
<1>4. CASE status' = "limit" /\ UNCHANGED <<fds, data>>
  <2>1. fd_limit # 0 /\ Set!Cardinality(Registered) = fd_limit
    BY <1>2, <1>4 DEF net_poller_add, IInv, TypeOK, NET_POLLER_NOLIMIT
  <2>2. Registrations' = Registrations /\ Pending' = Pending
    BY <1>1, <1>4, SameArraysSameSet
  <2> QED
    BY <1>1, <1>4, <2>1, <2>2 DEF Set!Add, Registrations, Pending
<1> QED
  BY <1>3, <1>4 DEF net_poller_add, Stored

(* net_poller_remove_this is RemoveThis. *)
LEMMA RemoveImplements ==
  ASSUME IInv, IInv', net_poller_remove_this
  PROVE  Set!RemoveThis
<1>1. msg # None /\ msg' = None /\ UNCHANGED <<fd_limit, status>>
  BY DEF net_poller_remove_this
<1>2. LooksUp /\ LooksUp'
  BY LooksUpHolds, PTL
<1>3. /\ fd_count \in Nat /\ fd_count' = fd_count - 1
      /\ event_pos \in 0..fd_count - 1
      /\ \A i \in 1..fd_count - 1 :
           /\ Source(i) \in 1..fd_count
           /\ fds'[i] = fds[Source(i)] /\ data'[i] = data[Source(i)]
  BY <1>2, FilledKeeps DEF fd_count, LooksUp
<1>4. /\ msg.socket = fds[event_pos + 1].fd
      /\ \A i, j \in 1..fd_count : fds[i].fd = fds[j].fd => i = j
  BY <1>1 DEF IInv, MessageIsCurrent, Fd
<1>5. \A i \in 1..fd_count - 1 : Source(i) # event_pos + 1
  BY <1>3 DEF Source
<1>6. Registered' = Registered \ {msg.socket}
  <2>1. ASSUME NEW i \in 1..fd_count - 1
        PROVE  fds'[i].fd \in Registered \ {msg.socket}
    <3>1. fds'[i].fd = fds[Source(i)].fd /\ Source(i) \in 1..fd_count
      BY <1>3
    <3>2. fds'[i].fd \in Registered
      BY <1>2, <3>1 DEF LooksUp
    <3>3. event_pos + 1 \in 1..fd_count
      BY <1>3
    <3>4. fds'[i].fd # msg.socket
      BY <1>4, <1>5, <3>1, <3>3
    <3> QED
      BY <3>2, <3>4
  <2>2. ASSUME NEW j \in 1..fd_count, fds[j].fd # msg.socket
        PROVE  \E i \in 1..fd_count - 1 : fds'[i].fd = fds[j].fd
    <3>1. j # event_pos + 1
      BY <1>4, <2>2
    <3>2. CASE j = fd_count
      <4>1. event_pos + 1 \in 1..fd_count - 1 /\ Source(event_pos + 1) = j
        BY <1>3, <3>1, <3>2 DEF Source
      <4> QED
        BY <1>3, <4>1
    <3>3. CASE j # fd_count
      <4>1. j \in 1..fd_count - 1 /\ Source(j) = j
        BY <1>3, <3>1, <3>3 DEF Source
      <4> QED
        BY <1>3, <4>1
    <3> QED
      BY <3>2, <3>3
  <2> QED
    BY <1>3, <2>1, <2>2 DEF Registered
<1>7. ASSUME NEW t \in Registered'
      PROVE  Registration(t)' = Registration(t)
  <2>1. PICK i \in 1..fd_count - 1 : t = fds'[i].fd
    BY <1>3 DEF Registered
  <2>2. Registration(t)' = [events |-> fds'[i].events, data |-> data'[i]]
    BY <1>2, <1>3, <2>1 DEF LooksUp
  <2>3. t = fds[Source(i)].fd /\ Source(i) \in 1..fd_count
    BY <1>3, <2>1
  <2>4. Registration(t) = [events |-> fds[Source(i)].events, data |-> data[Source(i)]]
    BY <1>2, <2>3 DEF LooksUp
  <2> QED
    BY <1>3, <2>2, <2>4
<1>8. Registrations' = Set!Without(Registrations, msg.socket)
  BY <1>6, <1>7 DEF Registrations, Set!Without
<1>9. Pending' = Pending
  <2>1. Unvisited' = Unvisited
    BY <1>3, FilledKeeps DEF Unvisited, Source
  <2>2. \A i \in Unvisited : i \in 1..fd_count - 1 /\ Source(i) = i
    BY <1>3, FilledKeeps DEF Unvisited, Source
  <2> QED
    BY <1>3, <2>1, <2>2, SamePending
<1> QED
  BY <1>1, <1>8, <1>9 DEF Set!RemoveThis, Registrations, Pending

(* net_poller_modify_this is ModifyThis. *)
LEMMA ModifyImplements ==
  ASSUME IInv, IInv', NEW info \in Info, net_poller_modify_this(info)
  PROVE  Set!ModifyThis(info)
<1>1. msg # None
  BY DEF net_poller_modify_this
<1>2. LooksUp /\ LooksUp'
  BY LooksUpHolds, PTL
<1>3. /\ event_pos \in 0..fd_count - 1 /\ fd_count' = fd_count /\ fd_count \in Nat
      /\ \A i \in 1..fd_count :
           /\ fds'[i].fd = fds[i].fd /\ fds'[i].revents = fds[i].revents
           /\ fds'[i].events = IF i = event_pos + 1 THEN info.events ELSE fds[i].events
           /\ data'[i] = IF i = event_pos + 1 THEN info.data ELSE data[i]
      /\ UNCHANGED <<fd_limit, fd_capacity, event_count, event_pos, msg, status>>
  BY <1>2, ModifiedKeeps, SameSockets
<1>4. /\ msg.socket = fds[event_pos + 1].fd
      /\ \A i, j \in 1..fd_count : fds[i].fd = fds[j].fd => i = j
  BY <1>1 DEF IInv, MessageIsCurrent, Fd
<1>5. Registered' = Registered
  BY <1>3 DEF Registered
<1>6. ASSUME NEW t \in Registered
      PROVE  Registration(t)' = IF t = msg.socket THEN info ELSE Registration(t)
  <2>1. PICK i \in 1..fd_count : t = fds[i].fd
    BY DEF Registered
  <2>2. /\ Registration(t)' = [events |-> fds'[i].events, data |-> data'[i]]
        /\ Registration(t) = [events |-> fds[i].events, data |-> data[i]]
    BY <1>2, <1>3, <2>1 DEF LooksUp
  <2>3. t = msg.socket <=> i = event_pos + 1
    BY <1>3, <1>4, <2>1
  <2> QED
    BY <1>3, <2>2, <2>3 DEF Info
<1>7. Registrations' = [Registrations EXCEPT ![msg.socket] = info]
  BY <1>5, <1>6 DEF Registrations
<1>8. Pending' = Pending
  <2>1. Unvisited' = Unvisited
    BY <1>3 DEF Unvisited
  <2> QED
    BY <1>2, <1>3, <2>1, SamePending DEF LooksUp
<1> QED
  BY <1>1, <1>3, <1>7, <1>8 DEF Set!ModifyThis, Registrations, Pending

(* net_poller_wait with events is Event. *)
LEMMA EventImplements ==
  ASSUME IInv, IInv', NEW revents \in [1..fd_count -> SUBSET (Events \cup Conditions)],
         net_poller_wait_Event(revents)
  PROVE  Set!Event
<1> DEFINE ready == {i \in 1..fd_count : revents[i] # {}}
<1>1. /\ fds' = [i \in 1..fd_count |-> [fds[i] EXCEPT !.revents = revents[i]]]
      /\ ready # {}
      /\ event_pos = -1 /\ event_pos' = fd_count
      /\ UNCHANGED <<data, fd_limit, msg, status>>
  BY DEF net_poller_wait_Event, Polled
<1>2. LooksUp /\ LooksUp'
  BY LooksUpHolds, PTL
<1>3. /\ fd_count \in Nat /\ fd_count' = fd_count
      /\ \A i \in 1..fd_count :
           /\ fds'[i].fd = fds[i].fd /\ fds'[i].events = fds[i].events
           /\ fds'[i].revents = revents[i]
  BY <1>1, PolledKeeps
<1>4. Pending = <<>> /\ msg' = None
  BY <1>1, Outside, NonePending
<1>5. Registrations' = Registrations
  <2>1. Registered' = Registered
    BY <1>3 DEF Registered
  <2>2. ASSUME NEW t \in Registered
        PROVE  Registration(t)' = Registration(t)
    <3>1. PICK i \in 1..fd_count : t = fds[i].fd
      BY DEF Registered
    <3>2. /\ Registration(t)' = [events |-> fds'[i].events, data |-> data'[i]]
          /\ Registration(t) = [events |-> fds[i].events, data |-> data[i]]
      BY <1>2, <1>3, <3>1 DEF LooksUp
    <3> QED
      BY <1>1, <1>3, <3>2
  <2> QED
    BY <2>1, <2>2 DEF Registrations
<1>6. Unvisited' = ready
  BY <1>1, <1>3 DEF Unvisited
<1> DEFINE S == {fds[i].fd : i \in ready}
<1>7. S # {} /\ S \in SUBSET DOMAIN Registrations
  BY <1>1 DEF Registrations, Registered
<1>8. DOMAIN Pending' = S
  BY <1>3, <1>6 DEF Pending
<1>9. Pending' \in [S -> Set!Ready]
  <2>1. ASSUME NEW t \in S
        PROVE  fds'[Index(t)'].revents \in Set!Ready
    <3>1. PICK i \in ready : t = fds[i].fd
      OBVIOUS
    <3>2. fds'[Index(t)'].revents = revents[i]
      BY <1>2, <1>3, <3>1 DEF LooksUp
    <3> QED
      BY <3>1, <3>2 DEF Set!Ready
  <2>2. {fds'[i].fd : i \in Unvisited'} = S
    BY <1>3, <1>6
  <2> HIDE DEF S
  <2> QED
    BY <2>1, <2>2 DEF Pending
<1> HIDE DEF S
<1> QED
  BY <1>1, <1>4, <1>5, <1>7, <1>9 DEF Set!Event, Registrations, Pending

(* net_poller_wait without events changes nothing of the set. *)
LEMMA NothingImplements ==
  ASSUME IInv, IInv', net_poller_wait_Nothing
  PROVE  UNCHANGED Set!vars
<1> DEFINE none == [i \in 1..fd_count |-> {}]
<1>1. /\ fds' = [i \in 1..fd_count |-> [fds[i] EXCEPT !.revents = none[i]]]
      /\ event_pos = -1
      /\ UNCHANGED <<data, fd_limit, event_pos, msg, status>>
  BY DEF net_poller_wait_Nothing
<1>2. none \in [1..fd_count -> SUBSET (Events \cup Conditions)]
  OBVIOUS
<1> HIDE DEF none
<1>3. LooksUp /\ LooksUp'
  BY LooksUpHolds, PTL
<1>4. /\ fd_count \in Nat /\ fd_count' = fd_count
      /\ \A i \in 1..fd_count : fds'[i].fd = fds[i].fd /\ fds'[i].events = fds[i].events
  BY <1>1, <1>2, PolledKeeps
<1>5. Registrations' = Registrations
  <2>1. Registered' = Registered
    BY <1>4 DEF Registered
  <2>2. ASSUME NEW t \in Registered
        PROVE  Registration(t)' = Registration(t)
    <3>1. PICK i \in 1..fd_count : t = fds[i].fd
      BY DEF Registered
    <3>2. /\ Registration(t)' = [events |-> fds'[i].events, data |-> data'[i]]
          /\ Registration(t) = [events |-> fds[i].events, data |-> data[i]]
      BY <1>3, <1>4, <3>1 DEF LooksUp
    <3> QED
      BY <1>1, <1>4, <3>2
  <2> QED
    BY <2>1, <2>2 DEF Registrations
<1>6. Pending' = Pending
  <2>1. Unvisited = {} /\ Unvisited' = {}
    BY <1>1, <1>4, Outside DEF Unvisited
  <2> QED
    BY <2>1, SamePending
<1> QED
  BY <1>1, <1>5, <1>6 DEF Set!vars, Registrations, Pending

(* net_poller_next is Next. *)
LEMMA NextImplements ==
  ASSUME IInv, IInv', net_poller_next
  PROVE  Set!Next
<1>1. event_pos >= 0 /\ UNCHANGED <<fds, data, fd_limit, fd_capacity, status>>
  BY DEF net_poller_next
<1>2. LooksUp /\ LooksUp'
  BY LooksUpHolds, PTL
<1>3. Registrations' = Registrations
  BY <1>1 DEF Registrations, Registered, Registration, Index, fd_count
<1>4. CASE \E k : HandsOut(k)
  <2>1. PICK k : HandsOut(k)
    BY <1>4
  <2> DEFINE s == fds[k + 1].fd
  <2>2. /\ k + 1 \in 1..fd_count /\ k + 1 \in Unvisited
        /\ Unvisited' = Unvisited \ {k + 1}
        /\ msg' = [socket |-> s, events |-> fds[k + 1].revents, data |-> data[k + 1]]
    BY <1>1, <2>1, HandedOut
  <2>3. \A i, j \in 1..fd_count : fds[i].fd = fds[j].fd => i = j
    BY DEF IInv, MessageIsCurrent
  <2>4. s \in DOMAIN Pending /\ Pending[s] = fds[k + 1].revents
    BY <1>2, <2>2 DEF Pending, LooksUp
  <2>5. Registrations[s].data = data[k + 1]
    <3>1. s \in Registered /\ Registration(s) = [events |-> fds[k + 1].events, data |-> data[k + 1]]
      BY <1>2, <2>2 DEF LooksUp
    <3> HIDE DEF s
    <3> QED
      BY <3>1 DEF Registrations
  <2>6. Pending' = Set!Without(Pending, s)
    <3>1. {fds'[i].fd : i \in Unvisited'} = {fds[i].fd : i \in Unvisited} \ {s}
      BY <1>1, <1>2, <2>2, <2>3 DEF LooksUp
    <3>2. \A t : fds'[Index(t)'].revents = fds[Index(t)].revents
      BY <1>1 DEF Index, fd_count
    <3> QED
      BY <3>1, <3>2 DEF Pending, Set!Without
  <2>7. Pending # <<>>
    BY <2>2, NonePending
  <2>8. msg' = [socket |-> s, events |-> Pending[s], data |-> Registrations[s].data]
    BY <2>2, <2>4, <2>5
  <2> HIDE DEF s
  <2> QED
    BY <1>1, <1>3, <2>4, <2>6, <2>7, <2>8 DEF Set!Next, Registrations, Pending
<1>5. CASE Found = {} /\ Exhausted
  <2>1. msg' = None /\ event_pos' = -1
    BY <1>5 DEF Exhausted
  <2>2. Unvisited = {}
    BY <1>1, <1>5, FoundIsUnvisited
  <2>3. Unvisited' = {}
    BY <1>1, <1>2, <2>1 DEF Unvisited, LooksUp, fd_count
  <2>4. Pending = <<>> /\ Pending' = <<>>
    BY <2>2, <2>3, NonePending DEF Pending
  <2> QED
    BY <1>1, <1>3, <2>1, <2>4 DEF Set!Next, Registrations, Pending
<1> QED
  BY <1>4, <1>5 DEF net_poller_next, HandsOut

(* The assertion of net_poller_add has not failed. *)
NotAborted == status # "aborted"

(* Every step is one of the set, or none. *)
LEMMA StepImplements ==
  IInv /\ IInv' /\ [Next]_vars /\ NotAborted' => [Set!Step]_(Set!vars)
<1> SUFFICES ASSUME IInv, IInv', [Next]_vars, NotAborted'
             PROVE  [Set!Step]_(Set!vars)
  OBVIOUS
<1>1. Info = Set!Info
  BY DEF Info, Set!Info
<1>2. ASSUME NEW s \in Socket, NEW info \in Info, net_poller_add(s, info)
      PROVE  Set!Step
  BY <1>1, <1>2, AddImplements DEF Set!Step, net_poller_add, NotAborted
<1>3. CASE net_poller_remove_this
  BY <1>3, RemoveImplements DEF Set!Step, net_poller_remove_this
<1>4. ASSUME NEW info \in Info, net_poller_modify_this(info)
      PROVE  Set!Step
  BY <1>1, <1>4, ModifyImplements DEF Set!Step, net_poller_modify_this
<1>5. ASSUME NEW revents \in [1..fd_count -> SUBSET (Events \cup Conditions)],
             net_poller_wait_Event(revents)
      PROVE  Set!Step
  BY <1>5, EventImplements DEF Set!Step, net_poller_wait_Event
<1>6. CASE net_poller_wait_Nothing
  BY <1>6, NothingImplements
<1>7. CASE net_poller_next
  BY <1>7, NextImplements DEF Set!Step, net_poller_next
<1>8. CASE net_poller_free
  <2>1. Registrations' = Registrations /\ Pending' = Pending
    BY <1>8, SameArraysSameSet DEF net_poller_free
  <2> QED
    BY <1>8, <2>1 DEF net_poller_free, Set!Step, Set!Free, Registrations, Pending
<1>9. CASE UNCHANGED vars
  <2>1. Registrations' = Registrations /\ Pending' = Pending
    BY <1>9, SameArraysSameSet DEF vars
  <2> QED
    BY <1>9, <2>1 DEF vars, Set!vars, Registrations, Pending
<1> QED
  BY <1>2, <1>3, <1>4, <1>5, <1>6, <1>7, <1>8, <1>9 DEF Next

(* As long as its assertion does not fail, the two arrays with their count *)
(* and position are a set of sockets of which a sweep hands out every      *)
(* ready one once, with its own events and data.                           *)
THEOREM ImplementsUnlessAborted == Spec /\ []NotAborted => ImplementsReadySet
  BY InitImplements, Invariant, StepImplements, PTL DEF Spec, Set!Spec, ImplementsReadySet

-----------------------------------------------------------------------------
(* When the assertion does not fail *)

(* A poller has a limit, as that of server.c, or no more sockets can exist *)
(* than its first allocation holds.                                        *)
Roomy ==
  \A c \in Creations :
    c.count_limit = NET_POLLER_NOLIMIT =>
      /\ IsFiniteSet(Socket)
      /\ Cardinality(Socket) <= IF Len(c.sockets) = 0 THEN 8 ELSE Len(c.sockets) * 2

Room ==
  fd_limit = NET_POLLER_NOLIMIT =>
    /\ IsFiniteSet(Socket)
    /\ Cardinality(Socket) <= IF fd_capacity = 0 THEN 8 ELSE fd_capacity

(* There is room at first. *)
LEMMA InitRoom == ASSUME Roomy, Init PROVE Room /\ NotAborted
<1>1. PICK c \in Creations : net_poller_create(c.sockets, c.count_limit)
  BY DEF Init
<1>2. Len(c.sockets) \in Nat
  BY CreationAssumption, LenProperties
<1> QED
  BY <1>1, <1>2 DEF Roomy, Room, NotAborted, net_poller_create

(* A full poller with no limit would hold every socket there is. *)
LEMMA RoomStep == IInv /\ Room /\ NotAborted /\ [Next]_vars => (Room /\ NotAborted)'
<1> SUFFICES ASSUME IInv, Room, NotAborted, [Next]_vars PROVE (Room /\ NotAborted)'
  OBVIOUS
<1>1. ASSUME NEW s \in Socket, NEW info \in Info, net_poller_add(s, info)
      PROVE  (Room /\ NotAborted)'
  <2>1. UNCHANGED fd_limit /\ s \notin Registered
    BY <1>1 DEF net_poller_add
  <2>2. /\ fd_count \in Nat /\ fd_capacity \in Nat /\ fd_count <= fd_capacity
        /\ fd_limit # NET_POLLER_NOLIMIT => fd_capacity = fd_limit
    BY Arrays DEF IInv, TypeOK, WithinCapacity, CapacityIsLimit
  <2>3. Room'
    <3>1. fd_capacity' = fd_capacity \/ (fd_capacity = 0 /\ fd_capacity' = 8)
      BY <1>1, <2>2 DEF net_poller_add, NET_POLLER_NOLIMIT
    <3> QED
      BY <2>1, <3>1 DEF Room
  <2>4. CASE fd_count = fd_capacity /\ fd_limit # fd_capacity
    <3>1. fd_limit = NET_POLLER_NOLIMIT /\ fd_capacity # 0
      BY <2>2, <2>4 DEF NET_POLLER_NOLIMIT
    <3>2. IsFiniteSet(Socket) /\ Cardinality(Socket) <= fd_count
      BY <2>4, <3>1 DEF Room
    <3>3. IsFiniteSet(Registered) /\ Cardinality(Registered) = fd_count
      BY CountIsCardinality
    <3>4. Cardinality(Registered \cup {s}) = fd_count + 1
      BY <2>1, <3>3, FS_AddElement
    <3>5. Registered \cup {s} \in SUBSET Socket
      BY Arrays DEF IInv, Registered, FdRec
    <3>6. Cardinality(Registered \cup {s}) <= Cardinality(Socket)
      BY <3>2, <3>5, FS_Subset
    <3>7. Cardinality(Socket) \in Nat
      BY <3>2, FS_CardinalityType
    <3> QED
      BY <2>2, <3>2, <3>4, <3>6, <3>7
  <2>5. CASE ~ (fd_count = fd_capacity /\ fd_limit # fd_capacity)
    BY <1>1, <2>2, <2>3, <2>5 DEF net_poller_add, NotAborted
  <2> QED
    BY <2>4, <2>5
<1>2. CASE /\ ~ \E s \in Socket, info \in Info : net_poller_add(s, info)
           /\ status' # "aborted"
           /\ UNCHANGED <<fd_limit, fd_capacity>>
  BY <1>2 DEF Room, NotAborted
<1> QED
  BY <1>1, <1>2
  DEF Next, vars, NotAborted, net_poller_remove_this, net_poller_modify_this,
      net_poller_wait_Event, net_poller_wait_Nothing, net_poller_next, net_poller_free

(* The poller of server.c, and every other with a limit, never fails the   *)
(* assertion of net_poller_add; one without does not before it is full.    *)
THEOREM RoomyNeverAborts == ASSUME Roomy PROVE Spec => []NotAborted
<1>1. Init => Room /\ NotAborted
  BY InitRoom
<1> QED
  BY <1>1, RoomStep, Invariant, PTL DEF Spec

(* Such a poller is a ReadySet: every ready socket is handed out exactly   *)
(* once per wait, with the events and the data that are its own, whatever  *)
(* the loop of server.c adds, modifies or removes between two calls.       *)
THEOREM Implements == ASSUME Roomy PROVE Spec => ImplementsReadySet
  BY RoomyNeverAborts, ImplementsUnlessAborted, PTL

=============================================================================
