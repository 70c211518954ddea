# A verification of yt-stuff

The repository scrapes the feeds of video channels (`src/vids.c`), keeps what it
found in a flat table (`src/vid_format.h`) and serves it with a small web server
(`src/ser`). This directory holds TLA+ models of its programs, the configurations
that check them with TLC, and proofs that TLAPS checks.

## The system

| Part | State | Operations | Talks to |
|---|---|---|---|
| video table: `vid_format.h` over `utils.h` | `channels_t`: `authors`, `offsets`, `entries`, the arena `text`, each with a size and a capacity | create, add author, add entry, find author, empty, write, load | filled by `parse`, written by `vids.c`, loaded by `ser_lin.c` |
| feed scraper: `vids.c` | the read buffer with its link and edge indices; the arena curl writes to; the cursor of `parse` with the author and entry being read | `load_channel_file`, `update_channel`, `write_callback`, `parse`, the writing of `data.yt` | curl; the table |
| Linux server: `ser_lin.c` | `connections`, `remove_marks`, `conn_count`; the cached table and style sheet | `main`'s loop, `accept_connection`, `process_request`, `method_get`, `close_handler` | clients; `data.yt`; `style.css`; SIGINT |
| Windows server: `ser_win.c` | the same table, shared by two threads | the same loop without blocking; `close_handler` in a thread of its own | clients; Ctrl-C |
| poller: `net_linux.c` | two parallel arrays, `event_count`, `event_pos`, limit and capacity | `net_poller_create`, `_add`, `_remove_this`, `_modify_this`, `_wait`, `_next`, `_free` | poll(2); `server.c` |
| event loop server: `server.c`, `ctrl_c_linux.c` | `running`, `connections`, `connection_count`, `request_buffers`, over the poller | `main`'s loop, `process_connection`, `parse_request`, `close_handler`; unfinished: does not compile at this commit | poller; clients; SIGINT |
| build program: `build.h`, `build.c` | the files `argv[0]`, `argv[0].old`, `build.c` and their times | `try_rebuild_self`, `compile_w`, `execute_argv_w` | the compiler; the user |
| pages: `ser_content.c` | none | `generate_vids` | the table; `ser_lin.c` |
| `dck.h`, `format_test.c` | none that lasts | macros, a dump of the table | |

What is hard in it, and what makes each part correct:

* **Table.** An entry is inserted in the middle of an array that holds all
  authors' entries, while `offsets` cuts it up; texts are kept as offsets into an
  arena that moves. Correct: the table reads back as an ordered list of authors,
  each with its entries in the order they were found; no view leaves the arena; no
  array is overrun.
* **Scraper.** A link may be cut by the end of the 512-character buffer; a transfer
  may fail after half of it was delivered; feeds of one author may come twice.
  Correct: the links updated are those of the file; the table says what the feeds
  said.
* **Servers.** Clients send in pieces, close, crash and come back; the table is
  compacted in place while a signal handler or a second thread closes what it
  holds. Correct: no connection is lost or closed twice, all are found when the
  server is stopped, requests are answered, nobody else's connection is closed.
* **Files.** `data.yt` is rewritten by one program while another reads it;
  `style.css` changes between its stat and its read. Correct: no half table is
  shown, and no style sheet is kept that is older than the time kept with it, as
  far as the kernel's dates of writes can tell.
* **Poller.** Sockets are added, removed and modified in the middle of a sweep, and
  a removal moves the last element into the hole. Correct: each ready socket is
  handed out once, with its own data.
* **Event loop server.** It finds a connection by a number that it gave to the poller
  together with the socket; Ctrl-C only clears a flag, which may happen just before
  the server waits. Correct: the poller holds exactly what is open, a message leads
  to its own connection, the flag ends the program.
* **Build program.** It moves itself away, compiles a new self and runs it, with
  times in whole seconds; on Windows a program that runs cannot be removed or
  replaced. Correct: a program is always left, and the one that goes on is current.

## Modules

| Module | Models | Remarks |
|---|---|---|
| `Channels` | `channels_t` and its operations, `arena_append_sv`, `safe_push` | one action per author or entry that `parse` adds; texts are sequences of characters because `rsv_of` is about their places |
| `ChannelList` | what the table promises: an ordered list of authors with entries | the abstract specification of `Channels` |
| `ChannelsProofs` | proofs about `Channels` | |
| `Vids` | `vids.c` as a whole, and the page `generate_vids` makes of its file | extends `LinkFile` and instantiates `Feed`: `load_channel_file` calls `update_channel` with each link it cuts out of the buffer |
| `Feed` | `update_channel`, `parse` | composes with `Channels`: everything `parse` stores goes through its operators, and `UsesTable` says it uses the table as `Channels` allows. A document is a sequence of elements and tags |
| `LinkFile` | `load_channel_file` | character by character, since it is about where the buffer ends |
| `Pages` | `method_get`'s two pages from files, `channels_load`, `channels_write`, and the programs that write the files | a cell is a count or an item; it remembers which run wrote it |
| `WebClients` | the clients of the three servers and the kernel's queues | outside of `src/`; modelled from the calls the servers make |
| `SerLin` | `ser_lin.c` | extends `WebClients` |
| `SerWin` | `ser_win.c` with both threads | extends `WebClients` |
| `Server` | `server.c` with the callback of `ctrl_c_linux.c` and the socket calls of `net_linux.c` | extends `WebClients` and instantiates `Poller`: every change of the poller is one of the poller's actions |
| `Poller` | `net_linux.c` from `net_poller_create` on, driven by any user that keeps to the protocol of `server.c`'s loop | |
| `ReadySet` | what the poller promises: a set of sockets of which a sweep hands out the ready ones | the abstract specification of `Poller` |
| `Build` | `try_rebuild_self` and `main` of `build.c` | for both systems: `windows` is chosen at the start and kept |
| `BuildProofs` | proofs about `Build` | |
| `PollerProofs` | proofs about `Poller`, its refinement of `ReadySet` included | |
| `VidsProofs` | proofs about `Vids` and `LinkFile` | |
| `SerLinProofs`, `SerWinProofs`, `ServerProofs` | proofs about the three servers | the poller inside `Server` is proved about through its actions there |
| `PagesProofs` | proofs about `Pages` | |
| `MC*` | the instances TLC checks | |

Definitions have the names of the code's functions and variables. A step of a
model is what no other actor of that model can interrupt or observe half-done: an
operation of the single-threaded table and poller is one step; the servers' steps
are single system calls and single iterations of the compacting loop, because a
signal or the second thread can come in between; the accept of `ser_lin.c` is two
steps, because SIGINT between them finds a connection in no table. A definition
with the comment `mutant` is a plausible mistake in the definition that follows it;
each property was seen to fail when its mutant takes that definition's place.

How the state corresponds: the sequences of `Channels` are the arrays up to their
counts, with the capacities beside them. `SerLin` and `SerWin` have both C tables
whole, elements beyond `conn_count` included, as functions of the slot; `Poller`
has its arrays up to `fd_count`. Descriptors are named after the client at the other end. `pc`
is the place in `main`. A unit of a request is a piece that starts with `GET` or one
that does not: that is all `parse_request` tells apart.

## Runs

| Run | Question | Bounds, and why they do |
|---|---|---|
| `channels` | Does the flat table implement the list, with sound offsets and views? | three authors, three entries in any order: an insert before, between and after others; capacity 1, so that arrays and arena grow; a missing and an empty field |
| `vids` | From the link file to the page: are the updated links those of the file, is the table what their feeds said, does the page show all of it, and does the function return? | every file of up to nine characters with a buffer of three: links that fit, fill the buffer, are cut once or several times; feeds of one author at two addresses, without entries, with an invalid author, links that lead nowhere |
| `vids_partial` | Does `parse` get correct XML, as its comment expects? | transfers may fail after any part. **Violated**, see below |
| `serlin` | Is the table exact, does SIGINT find everything, are requests answered? | three slots, three clients, of which one only connects and can fill the table; requests in two pieces that fill the buffer; two requests, three connections; poll may fail; SIGINT from the first step on |
| `serlin_keepalive` | Is a connection kept alive, as every reply says? | three clients with whole requests and room for all. **Violated** |
| `serwin` | The same, with a second thread; does Ctrl-C end the process? | three slots, three clients of which one may crash and one only connects; the handler at any step |
| `pages`, `pages_overlap` | Is only a whole table loaded, and no stale style sheet kept? Do the checks in `channels_load` hold while `vids.c` writes? | three runs of `vids.c` with different counts so that parts of one table fit another; four writes of the style sheet in three ticks of the kernel's clock, so that writes share a time or not. The second is **violated** |
| `poller`, `poller_nolimit` | Does the poller implement the ready set? Does one without a limit grow? | a listener and two sockets; limit 2 is met; descriptors are used again. The second is **violated** |
| `server` | Does the poller, under its real user, hold what is open; does each message lead to its connection; does Ctrl-C end the program and is everything read? | a poller and a table of three: the third client meets the poller's limit, the fourth connection of a run the end of the table; requests in two pieces that fill the buffer; one client may crash |
| `build` | Is a program always left, current, and does each run end? | three edits in four seconds: two edits within one second, edits during a compilation, crashes at every step; both systems |

No table's behaviour depends on its size beyond "full" or "not full", and marks,
indices and offsets are off by one with two or three elements as with 64. Requests
and connections are bounded in all, not per client, so that every division of
them among the clients is seen. `Silent` and `Abrupt` (in `WebClients`) say which
clients never speak and which may crash; both only remove behaviours of clients.

### What the violated runs show

* `poller_nolimit`: `NET_POLLER_NOLIMIT` is 0 and the assertion before the branch
  that grows the arrays compares the limit with the capacity, so a poller without a
  limit aborts when it is full (`net_linux.c:186`).
* `serlin_keepalive`: compaction moves connections and not their marks; a surviving
  connection inherits the mark of the closed one whose slot it takes
  (`ser_lin.c:430`) and is closed in the next round unless it is readable then.
* `vids_partial`: a failing transfer returns before the arena is emptied
  (`vids.c:189`), and the next feed is parsed with the old part in front.
* `pages_overlap`: the server locks `data.yt`, the writer does not
  (`ser_lin.c:253`, `vids.c:279`); the server exits on a table that is being written.
  It can do worse: a read can begin in the file of one run and go on in that of the
  next, and when the counts it meets agree, `channels_load` accepts the mixture. TLC
  finds this when `LoadsWholeTable` is checked with `Overlap = TRUE` and
  `Tables = << <<1,2,1,1>>, <<1,2,1,2>> >>`, two tables that differ in the last count
  only; run `pages` claims the property for reads that no write overlaps.

Other things the passing runs are phrased around. A read of `ser_lin.c` that
exactly fills the buffer is repeated and blocks the server (`ReadBlocked` in
`Answered`); its sockets block in a write as well, when a client does not read a
reply that is larger than the room in the kernel's buffer (`WriteBlocked`). How large
that is the model leaves open: any write may block. A recv of `ser_win.c` that returns 0 after data is repeated forever
(`Spinning`): the end of a connection is only noticed by the first recv. `Answered`
holds in each behaviour that does not end in one of them. `server.c` has the same
loop over recv, and one over headers that does not advance in the buffer (`Stuck`);
it also counts every connection of its life against the 64 elements of its table,
which ends a behaviour as `undefined`, as an accept into a full table does in the
other two, and the handler of `ser_lin.c` when the table is full: its loop begins at
`connections[conn_count]`, behind the table (`ser_lin.c:357`). A style sheet that is
read in the tick in which it is also written can be stale: `st_mtim` is the time of
the kernel's last tick, so an editor's truncation and its write can share it, with the
stat and the read of `ser_lin.c:229` in between. `CssNotStale` therefore speaks of a stat
in a later tick than the write it found; without this condition TLC finds the empty
sheet that is kept.

## Fairness

* `SerLin`: weak fairness of the server's steps, the one thread being scheduled;
  strong fairness of `poll`, as a poll that can succeed does not fail forever. No
  client is fair: it may stop in the middle of a request, and never read a reply, so
  the step by which a blocked write ends is not fair. SIGINT is not either.
* `SerWin`: weak fairness of each of the two threads. Ctrl-C need not come.
* `Server`: weak fairness of the steps of the one thread, without the one in which
  poll fails: `Stops` must not count on that. The timeout of poll is a step that
  is enabled when nothing is ready. Ctrl-C and the clients are not fair.
* `Poller`: weak fairness of `net_poller_next`, which the loop of `server.c` calls
  until it returns false.
* `Vids`: weak fairness of the next step; the program is sequential, and curl
  delivers or fails.
* `Build`: weak fairness of the program and the compiler it waits for; the user
  need do nothing. Edits are never dated in the future: with such a file the
  program would compile and execute itself without end.

## What is proved

`ChannelsProofs` proves, for any characters, authors, entries, capacity and bounds:
`TypeCorrect`, `OffsetsPartition`, `ViewsInArena` and `NoOverrun`, which state the
invariants of run `channels`, and `Refinement`, that every behaviour of the table is
one of `ChannelList`. None of the invariants is inductive alone: that an insert
stays in its array needs the offsets to be monotone and to end with the number of
entries, and that reading gives the same text after an append needs every view to lie
in the arena. The inductive invariant `IInv` joins these; `AddAuthorInv` and
`AddEntryInv` keep it, one per action, over lemmas about what the operators return
(`RsvInBounds`, `ReadsBack`, `PushedHolds`, `ShiftedProperties`, `OffsetBounds`).
The refinement then shows that old entries read as before (`OldReads`), that the
new one is found where its author's run ends (`RunsAfterInsert`), and maps each
step. The assumptions are those named in `Channels`, and one that C does not
make: `utils.h:245` initialises `begin` by a call that appends and `end` by the size of
the arena, in an order the language leaves open. The model has them in the order
they are written in, as compilers in use evaluate them; in the other order every
view would be empty, and TLC finds that the list is not implemented (`rsv_of_early`).

`BuildProofs` proves the type invariant, `ProgramKept`, `FailureRestores` and
`MainIsCurrent` for any number of edits and any time. The inductive invariant says
where the program is at each step (`Placed`), that a program about to be replaced is
older than `build.c` (`Timed`), and that a program of another version is older than
`build.c` unless an edit raced its compilation (`Current`); the last is what makes
the comparison of times mean anything about contents.

`PollerProofs` proves, for any sockets, events, data and limit, `TypeOK`,
`WithinCapacity`, `EventCountExact` and `MessageIsCurrent`. These four are inductive
only together: an add stays within the capacity because a limited poller's
capacity is its limit (`CapacityIsLimit`); the count stays exact because the message
in hand is that of the element at `event_pos`, and because the two arrays have
the same length. The removal is the hard case: the last element moves into the
hole. The sweep goes from the last element to the first, so the one that moves
was handed out before and the ready elements still ahead remain as many as
`event_count` says. `ImplementsUnlessAborted` maps every
step to one of `ReadySet` as long as the assertion in `net_poller_add` holds;
`RoomyNeverAborts` shows that it does under `Roomy`: the poller has a limit, or
no more sockets exist than its first allocation holds. `Implements` joins the two.
The hypothesis is needed: run `poller_nolimit` shows that a full poller
without a limit aborts. `server.c` always gives a limit.

`SerLinProofs` and `SerWinProofs` prove the type invariants and `TableHoldsOpen`
for tables of any size; the first also `HandlerClosesAll` (of a handler that comes
while the table is not full; with a full one the program is `undefined`), the second
`ClosedForGood`. What makes the proof go through is a description of the table in the
middle of the compacting loop: the slots below the write index and those from
the read index on hold what is open (`Held`), each descriptor once (`Held_once`), the
listener first, and beside them there is at most the one descriptor in hand that
a call has returned and the table does not have yet (`In_hand`). The handler can come
at each step, so this holds at each step and not only around the loop.
In `SerWin` the handler's thread closes what is in the table while the main thread
goes on; there what is open is exactly what the table holds until the handler
has closed the listener, and at most that afterwards (`Open_held`). `ClosedForGood`
follows because an accept needs the listener, which the handler closes first: no handle
the handler closes was given to a new connection. It does not say that the handler
finds all; its loop runs up to `conn_count` and passes over a connection that is
not counted yet or that compaction moves. Both use that the kernel's queue holds only
connections that are not open yet (`QueueIsFresh`).

`ServerProofs` proves the type invariant, `NothingLeaks` and `DataIsOwn` for any
limit, table and clients. The invariant joins the poller's arrays with the table of
`server.c` and the kernel: what is in the arrays is open (`Arrays`, `Opened`), the
number kept with a socket is that of the table element with this socket
(`Own_data`), and the message in hand is one of these (`Message`).

`PagesProofs` proves the type invariant, `CssNotStale` and, for runs in which
`vids.c` does not write while the server reads (`Overlap = FALSE`),
`LoadsWholeTable`. The style sheet: a write is dated with the kernel's clock, of which
it is only assumed that it is never set back, and any number of writes may have the
same date. When a stat comes in a later tick than the write it found, each later write
has a later date than this one; a kept time equal to the file's then means that nothing
was written since, and what was read under it is the whole file. The table: the file is
always the start of what its last run writes (`File`); the reader is at the
beginning of the array it thinks it reads, or as far from its end as `want` says
(`Loaded`). Then the count it takes is that of this array (`Layout` says where each array of
`channels_write` begins), and after the fourth it is at the end of a whole table
or the file has ended before. Without the hypothesis the counts may be taken
from another run's table; run `pages_overlap` shows what the server does then.

`VidsProofs` proves `UpdatesAreLinks` and `AllUpdated` for files and buffers of any
length. The buffer is a window of the file (`Window`); where nothing is cut, it ends
between two links; and what was updated are as many links as begin before that
place. The links of a file are therefore numbered by their rank: the n-th is
the one with n places up to its beginning (`Up_to`), and one more link is updated
exactly where one more place begins (`OneMore`, `NoneMore`). `Start_behind`
is what `start` may be when the rest of the buffer is moved though nothing is cut:
its old value, which then stands before white space only.

The second half of `VidsProofs` follows `parse` through a document. `FeedInvariant`
needs no document to be whole: the scraper's state stays typed and its table sound
whatever a transfer that failed has left in the arena; `VidsTypeCorrect` joins it with
the types of `LinkFile`. For what the table says, `Laid` describes where a document's
heading and its entries are, by the places its entries end at; that every document is
laid out so (`DocumentLaid`) goes by the least prefix for which it would fail, since
`FlattenSeq` is recursive. `ParseAt` says where `parse` is in the layout and
what it has read by then: all that came before of the author and of the entry at hand
(`Known`, `Given`), nothing else of either. `ParseMoves` lists what a step may then do:
go on, find or add the author, add the next entry, drop an entry of an author that is
not valid, or return behind the last. `TableUse` follows at once, and for `TableHolds` the
list read back is compared with what was said so far (`Mid`): at first that of the
earlier feeds, then with the author, then with n of the entries, at the end with all of
`Merged`. That an author found is the one that was said, and one added is new, is
where the lemmas of `ChannelsProofs` about the table come in; they are instantiated for
these authors and entries (`TP`), and are therefore stated about the calls, without
the bounds of `Channels`.

`PageHolds` goes on to the page. `CameInv` says that `delivered` are the feeds of the
links that were answered, `StageInv` that nothing adds to the table once it was
written, so that the page shows the table of the last link; with `NoneMissed` these are
the feeds of all links of the file. The page goes through the flat array of entries, the
property through the lists of the authors one behind the other: `Runs` are the offsets
that cut the one into the others, `FlattenRuns` finds every element of every list at its
place of the flat one, `InSomeRun` every place of it in one of the lists.

`TableUse`, `TableHolds` and `PageHolds` have the hypothesis `[]ParsesOneDocument`, which
the program does not keep if a transfer that fails has delivered something (run
`vids_partial`). `OneDocument` shows that it does otherwise (`Partial = FALSE`), and
`TableHoldsWhole` and `PageHoldsWhole` join it with the others. `TableUse` also takes the table to stay within
`MaxAuthors` and `MaxEntries` (`Room`), because `Channels` has these bounds in its guards;
`TableHolds` does not need them.

Each inductive invariant was checked with TLC on the instance of the run before it
was proved, except those of the scraper (`PlaceInv`, `ListInv`), which quantify over
layouts; there TLC checks the properties they imply. Theorems about a module assume
the named assumptions on its constants and no more, where no hypothesis is mentioned
above.

Only model-checked: all liveness (`Answered`, `Served`, `Stops`, `Returns`, `SweepEnds`,
`Ends`), which is out of the prover's reach, as is the `ENABLED` in it.

## What is not modelled

* The request parser of `server.c`: `parse_request_line` and `parse_header` are
  reduced to what they can make the loops around them do: done, partial, an error, an
  abort, or no end. Their result is not used
  yet, they are called with arguments of other types than they declare, and some of
  their paths end without a value.
* The text of pages and replies (`ser_content.c` but for which entries
  `generate_vids` shows) and command lines: formatting. `mod_data_t` in `build.h` and
  the macros of `dck.h` are used by no program here. `format_test.c` uses field
  names that no longer exist; its reading loop is `ReadList` of `Channels`.
* Failing allocations, which end the programs. The length of a reply: in `ser_lin.c`
  a write completes, blocks or fails; in `ser_win.c` a send completes, or ends the
  process when it fails or finds too little room.
* `net_poller_get_this` of the poller, which only reads.
* What `build.c` does after the rebuild but that it ends; several build programs at
  once, and a compiler that leaves a part of a program.
* The scanning of attributes and characters inside an element of a feed.

## Plan

1. The scanning of the attributes of an element.
2. The request parser of `server.c` and `mod_data_t`, should they come into use.
