------------------------------- MODULE Poller -------------------------------
(***************************************************************************)
(* The poller of net_linux.c as its user, the loop of server.c, drives it: *)
(*                                                                         *)
(*   while (running) {                                                     *)
(*     if (net_poller_wait(&poller, 1000) != Event) continue;              *)
(*     while (net_poller_next(&poller, &message)) ... }                    *)
(*                                                                         *)
(* Inside the inner loop the user adds sockets it accepts and removes the  *)
(* socket of the message it is handling.  The sweep goes from the end of   *)
(* the array to its start, so a removal can fill the hole with the last    *)
(* element without skipping one or handing one out twice.                  *)
(*                                                                         *)
(* `fds` and `data` are the two C arrays up to fd_count, as sequences; C   *)
(* index k is position k + 1, and event_pos keeps the C number.            *)
(***************************************************************************)
EXTENDS Integers, Sequences, FiniteSets

CONSTANTS
  Socket,      \* file descriptors the kernel hands out
  Events,      \* the events a user can ask for (POLLIN, POLLOUT)
  Conditions,  \* the events poll reports unasked (POLLERR, POLLHUP, POLLNVAL)
  Data,        \* values of net_poller_data_t
  Creations,   \* the arguments of net_poller_create
  None

Info  == [events : SUBSET Events, data : Data]
Ready == (SUBSET (Events \cup Conditions)) \ {{}}

NET_POLLER_NOLIMIT == 0

\* The sockets are distinct, and assert(capacity >= count) holds.
ASSUME CreationAssumption ==
  \A c \in Creations :
    /\ c.sockets \in Seq([fd : Socket, info : Info])
    /\ \A i, j \in 1..Len(c.sockets) : c.sockets[i].fd = c.sockets[j].fd => i = j
    /\ c.count_limit \in Nat
    /\ c.count_limit # NET_POLLER_NOLIMIT => Len(c.sockets) <= c.count_limit

ASSUME NoneAssumption ==
  None \notin [socket : Socket, events : Ready, data : Data]

VARIABLES
  fds,          \* [fd, events, revents], fd_count of them
  data,         \* one net_poller_data_t per element of fds
  fd_limit,     \* count_limit of net_poller_create
  fd_capacity,  \* elements allocated for both arrays
  event_count,  \* ready elements the sweep has not reached yet
  event_pos,    \* C index of the element last reached; -1 when the sweep is over
  msg,          \* the user's message, None when it was dealt with or removed
  status        \* "running", "limit", "aborted" (failed assertion) or "freed"

vars == <<fds, data, fd_limit, fd_capacity, event_count, event_pos, msg, status>>

fd_count == Len(fds)

\* C index k of `fds` and of `data`.
Fd(k)    == fds[k + 1]
Datum(k) == data[k + 1]

Registered == {fds[i].fd : i \in 1..fd_count}

net_poller_create(sockets, count_limit) ==
  /\ fds  = [ i \in 1..Len(sockets) |->
                [fd |-> sockets[i].fd, events |-> sockets[i].info.events, revents |-> {}] ]
  /\ data = [i \in 1..Len(sockets) |-> sockets[i].info.data]
  /\ fd_limit = count_limit
  /\ fd_capacity = IF count_limit # NET_POLLER_NOLIMIT THEN count_limit ELSE Len(sockets) * 2
  /\ event_count = 0
  /\ event_pos = -1
  /\ msg = None
  /\ status = "running"

Init == \E c \in Creations : net_poller_create(c.sockets, c.count_limit)

Stored_without_data(s, info) ==  \* mutant: the second array is forgotten
  /\ fds' = Append(fds, [fd |-> s, events |-> info.events, revents |-> {}])
  /\ UNCHANGED data

Stored(s, info) ==
  /\ fds' = Append(fds, [fd |-> s, events |-> info.events, revents |-> {}])
  /\ data' = Append(data, info.data)

(* Of the full arrays only those of a limited poller, or of one created    *)
(* without a socket, pass the assertion; the latter grow.                  *)
net_poller_add(s, info) ==
  /\ status = "running"
  /\ s \notin Registered  \* the kernel hands out no number that is open
  /\ \/ fd_count < fd_capacity /\ Stored(s, info) /\ UNCHANGED <<fd_capacity, status>>
     \/ /\ fd_count = fd_capacity
        /\ \/ /\ fd_limit # fd_capacity
              /\ status' = "aborted"
              /\ UNCHANGED <<fds, data, fd_capacity>>
           \/ /\ fd_limit = fd_capacity /\ fd_limit # NET_POLLER_NOLIMIT
              /\ status' = "limit"
              /\ UNCHANGED <<fds, data, fd_capacity>>
           \/ /\ fd_limit = fd_capacity /\ fd_limit = NET_POLLER_NOLIMIT
              /\ fd_capacity' = IF fd_capacity # 0 THEN fd_capacity * 2 ELSE 8
              /\ Stored(s, info)
              /\ UNCHANGED status
  /\ UNCHANGED <<fd_limit, event_count, event_pos, msg>>

(* The user closes the socket of its message first, then removes it. *)
Filled_unshortened(s) ==  \* mutant: fd_count is not decremented
  [ i \in 1..fd_count |-> IF i = event_pos + 1 THEN s[fd_count] ELSE s[i] ]

Filled_unfilled(s) ==  \* mutant: the last element is not moved to the hole
  [ i \in 1..fd_count - 1 |-> s[i] ]

Filled(s) == [ i \in 1..fd_count - 1 |-> IF i = event_pos + 1 THEN s[fd_count] ELSE s[i] ]

remove_this_uncounting ==  \* mutant: the removed element is counted off again
  /\ status = "running"
  /\ msg # None
  /\ fds' = Filled(fds) /\ data' = Filled(data) /\ msg' = None
  /\ event_count' = event_count - 1
  /\ UNCHANGED <<fd_limit, fd_capacity, event_pos, status>>

net_poller_remove_this ==
  /\ status = "running"
  /\ msg # None
  /\ fds'  = Filled(fds)
  /\ data' = Filled(data)
  /\ msg'  = None
  /\ UNCHANGED <<fd_limit, fd_capacity, event_count, event_pos, status>>

net_poller_modify_this(info) ==
  /\ status = "running"
  /\ msg # None
  /\ fds'  = [fds EXCEPT ![event_pos + 1].events = info.events]
  /\ data' = [data EXCEPT ![event_pos + 1] = info.data]
  /\ UNCHANGED <<fd_limit, fd_capacity, event_count, event_pos, msg, status>>

-----------------------------------------------------------------------------
(* net_poller_wait, called when the last sweep is over. *)

(* poll found something: an element's revents are among what was asked for *)
(* and what is always reported, and empty for all others.                  *)
Polled(revents) ==
  LET ready == {i \in 1..fd_count : revents[i] # {}}
  IN  /\ ready # {}
      /\ \A i \in ready : revents[i] \subseteq fds[i].events \cup Conditions
      /\ fds' = [i \in 1..fd_count |-> [fds[i] EXCEPT !.revents = revents[i]]]
      /\ event_count' = Cardinality(ready)

net_poller_wait_Event(revents) ==
  /\ status = "running"
  /\ event_pos = -1
  /\ Polled(revents)
  /\ event_pos' = fd_count
  /\ UNCHANGED <<data, fd_limit, fd_capacity, msg, status>>

(* poll found nothing in time and cleared every revents.  A call cut short *)
(* by a signal, or failing, changes no more than this.                     *)
net_poller_wait_Nothing ==
  /\ status = "running"
  /\ event_pos = -1
  /\ fds' = [i \in 1..fd_count |-> [fds[i] EXCEPT !.revents = {}]]
  /\ UNCHANGED <<data, fd_limit, fd_capacity, event_count, event_pos, msg, status>>

(* The loop of net_poller_next: elements are looked at downwards from the  *)
(* one before event_pos, and no longer than event_count says one is ready. *)
Ready_below(c) == IF event_count > 0 THEN {k \in 0..c - 1 : Fd(k).revents # {}} ELSE {}

Found_skipping == Ready_below(event_pos - 1)  \* mutant: two steps down

Found == Ready_below(event_pos)

Exhausted_unreset ==  \* mutant: event_pos is left where the loop stopped
  msg' = None /\ UNCHANGED <<event_pos, event_count>>

Exhausted == msg' = None /\ event_pos' = -1 /\ UNCHANGED event_count

net_poller_next ==
  /\ status = "running"
  /\ event_pos >= 0
  /\ \/ \E k \in Found :
          /\ \A j \in Found : j <= k
          /\ msg' = [socket |-> Fd(k).fd, events |-> Fd(k).revents, data |-> Datum(k)]
          /\ event_pos' = k
          /\ event_count' = event_count - 1
     \/ Found = {} /\ Exhausted
  /\ UNCHANGED <<fds, data, fd_limit, fd_capacity, status>>

(* Outside of a sweep: the loop has ended, or a signal ended it before the *)
(* sweep began.                                                            *)
net_poller_free ==
  /\ status = "running"
  /\ event_pos \in {-1, fd_count}
  /\ status' = "freed"
  /\ UNCHANGED <<fds, data, fd_limit, fd_capacity, event_count, event_pos, msg>>

Next ==
  \/ \E s \in Socket, info \in Info : net_poller_add(s, info)
  \/ net_poller_remove_this
  \/ \E info \in Info : net_poller_modify_this(info)
  \/ \E revents \in [1..fd_count -> SUBSET (Events \cup Conditions)] :
       net_poller_wait_Event(revents)
  \/ net_poller_wait_Nothing
  \/ net_poller_next
  \/ net_poller_free

Spec == Init /\ [][Next]_vars

(* The user goes on calling net_poller_next until it returns false. *)
FairSpec == Spec /\ WF_vars(net_poller_next)

-----------------------------------------------------------------------------
(* Properties *)

TypeOK ==
  /\ fds  \in Seq([fd : Socket, events : SUBSET Events, revents : {{}} \cup Ready])
  /\ data \in Seq(Data)
  /\ fd_limit \in Nat /\ fd_capacity \in Nat
  /\ event_count \in Nat
  /\ event_pos \in Nat \cup {-1}
  /\ msg \in [socket : Socket, events : Ready, data : Data] \cup {None}
  /\ status \in {"running", "limit", "aborted", "freed"}

(* No element is written past the allocation of either array, and the two  *)
(* arrays stay in step.                                                    *)
WithinCapacity == Len(data) = fd_count /\ fd_count <= fd_capacity

Unvisited == {i \in 1..fd_count : i <= event_pos /\ fds[i].revents # {}}

(* net_poller_next gives up once event_count elements were handed out, so  *)
(* the count must be exact however many elements were added, removed and   *)
(* moved since the wait.  It would cut the sweep short if it were too low. *)
EventCountExact == event_pos <= fd_count /\ event_count = Cardinality(Unvisited)

(* While the user deals with a message, event_pos is the element of that   *)
(* very socket: get_this and modify_this touch no other, and remove_this   *)
(* removes no other; and no socket is registered twice.                    *)
MessageIsCurrent ==
  /\ msg # None => /\ event_pos \in 0..fd_count - 1
                   /\ Fd(event_pos).fd = msg.socket
                   /\ Fd(event_pos).revents = msg.events
  /\ \A i, j \in 1..fd_count : fds[i].fd = fds[j].fd => i = j

(* The set of sockets the arrays stand for. *)
Index(s) == CHOOSE i \in 1..fd_count : fds[i].fd = s

Registration(s) == [events |-> fds[Index(s)].events, data |-> data[Index(s)]]

Set == INSTANCE ReadySet WITH
  limit      <- fd_limit,
  registered <- [s \in Registered |-> Registration(s)],
  pending    <- [ s \in {fds[i].fd : i \in Unvisited} |-> fds[Index(s)].revents ],
  message    <- msg

(* Every ready socket is handed out exactly once per wait, with the events *)
(* and the data that are its own, whatever is added, modified or removed   *)
(* between two calls of net_poller_next.                                   *)
ImplementsReadySet == Set!Spec

(* A sweep ends: adding sockets while it runs does not prolong it. *)
SweepEnds == event_pos >= 0 ~> event_pos = -1 \/ status # "running"

(* NET_POLLER_NOLIMIT is offered as the limit of a poller that has none;   *)
(* adding a socket to such a poller should not end the program.            *)
NoLimitNeverAborts == fd_limit = NET_POLLER_NOLIMIT => status # "aborted"

=============================================================================
