------------------------------- MODULE Pages --------------------------------
(***************************************************************************)
(* The two pages that method_get of ser_lin.c makes from files and keeps,  *)
(* and the programs that write those files:                                *)
(*                                                                         *)
(*   /style.css  read again when the file's modification time changed;     *)
(*   /vids.html  read once from data.yt, which vids.c writes from time to  *)
(*               time with channels_write, and channels_load reads back.   *)
(*                                                                         *)
(* data.yt is a sequence of cells: for each of the four arrays a count,    *)
(* then that many items.  A cell carries the run of vids.c it is from, and *)
(* programs read and write a cell at a time: stdio's blocks may end        *)
(* anywhere in a large table.  The server locks the file; the lock is      *)
(* advisory and vids.c does not ask for it, so the model has no lock.      *)
(*                                                                         *)
(* A file's modification time is the kernel's clock when it was last       *)
(* written.  The clock advances by ticks, and any number of writes may     *)
(* fall into one; it is never set back.                                    *)
(***************************************************************************)
EXTENDS Naturals, Sequences

CONSTANTS
  Tables,    \* run of vids.c |-> the sizes of the four arrays it writes
  Overlap,   \* whether vids.c may run while the server reads the file
  MaxCount,  \* bound of the model: the largest count read from a wrong cell
  MaxEdits,  \* bound of the model: writes to style.css
  MaxTicks   \* bound of the model: the clock's last tick

Run     == DOMAIN Tables
Section == 1..4  \* authors, offsets, entries, text

ASSUME PagesAssumption ==
  /\ Tables \in Seq([Section -> Nat]) /\ Tables # <<>>
  /\ Overlap \in BOOLEAN
  /\ MaxCount \in Nat /\ MaxEdits \in Nat /\ MaxTicks \in Nat \ {0}

VARIABLES
  \* vids.c
  run,        \* the run of vids.c that wrote last, or is writing
  unwritten,  \* cells channels_write has still to write
  crashed,    \* whether a run of vids.c ended before it had written all
  \* files
  data_yt,    \* cells of data.yt
  style,      \* style.css: [time, edits, cells], its modification time, the
              \* writes to it so far, and its content by the writes it is from
  clock,      \* what the kernel dates a write with now
  \* the server
  pc,         \* "idle", or where in method_get it is
  loading,    \* what channels_load has read so far
  section,    \* the array it is reading
  want,       \* items of that array still to be read
  channels,   \* what vids.html was generated from, <<>> before
  stat,       \* what file_stat returned, `at` which time
  css         \* [time, data, cells]: css_mod_time and css_arena, whose data may be NULL;
              \* `at`, kept for the properties, is the time of the stat it is from

vids  == <<run, unwritten, crashed>>
files == <<data_yt, style, clock>>
load  == <<loading, section, want>>
vars  == <<vids, files, pc, load, channels, stat, css>>

Count(r, s) == << [run |-> r, section |-> s, count |-> TRUE] >>
Item(r, s)  == [run |-> r, section |-> s, count |-> FALSE]

Array(r, s) == Count(r, s) \o [k \in 1..Tables[r][s] |-> Item(r, s)]

channels_write(r) == Array(r, 1) \o Array(r, 2) \o Array(r, 3) \o Array(r, 4)

NoStat == [time |-> 0, at |-> 0, size |-> 0]
NoCss  == [time |-> 0, at |-> 0, data |-> FALSE, cells |-> <<>>]

Init ==
  /\ run = 1 /\ unwritten = <<>> /\ crashed = FALSE
  /\ data_yt = channels_write(1)
  /\ clock = 1
  /\ style = [time |-> clock, edits |-> 0, cells |-> <<0, 0>>]
  /\ pc = "idle"
  /\ loading = <<>> /\ section = 1 /\ want = 0
  /\ channels = <<>>
  /\ stat = NoStat
  /\ css = NoCss

-----------------------------------------------------------------------------
(* main of vids.c, once the links are dealt with. *)

MayWrite == Overlap \/ pc \notin {"count", "items", "eof"}

\* fopen "w" empties the file.
vids_open ==
  /\ MayWrite
  /\ unwritten = <<>> /\ run + 1 \in Run
  /\ run' = run + 1
  /\ unwritten' = channels_write(run + 1)
  /\ data_yt' = <<>>
  /\ UNCHANGED <<crashed, style, clock, pc, load, channels, stat, css>>

vids_write ==
  /\ MayWrite
  /\ unwritten # <<>>
  /\ data_yt' = Append(data_yt, Head(unwritten))
  /\ unwritten' = Tail(unwritten)
  /\ UNCHANGED <<run, crashed, style, clock, pc, load, channels, stat, css>>

(* The program is stopped, or safe_write fails: the rest is never written. *)
vids_crash ==
  /\ unwritten # <<>>
  /\ unwritten' = <<>>
  /\ crashed' = TRUE
  /\ UNCHANGED <<run, files, pc, load, channels, stat, css>>

(* An editor saves style.css: it empties the file, then writes it. *)
Written(cells) ==
  /\ style.edits < MaxEdits
  /\ style' = [time |-> clock, edits |-> style.edits + 1, cells |-> cells]
  /\ UNCHANGED <<vids, data_yt, clock, pc, load, channels, stat, css>>

edit_open == Written(<<>>)

edit_write ==
  /\ Len(style.cells) < 2
  /\ Written(Append(style.cells, style.edits + 1))

tick ==
  /\ clock < MaxTicks
  /\ clock' = clock + 1
  /\ UNCHANGED <<vids, data_yt, style, pc, load, channels, stat, css>>

-----------------------------------------------------------------------------
(* GET /style.css *)

file_stat ==
  /\ pc = "idle"
  /\ stat' = [time |-> style.time, at |-> clock, size |-> Len(style.cells)]
  /\ pc' = IF css.data /\ css.time = stat'.time THEN "idle" ELSE "css"
  /\ UNCHANGED <<vids, files, load, channels, css>>

\* The modification time kept is the one from before the file was read.
Kept_late == [time |-> style.time, at |-> clock]  \* mutant: stat'ed after the read

Kept == [time |-> stat.time, at |-> stat.at]

read_css ==
  /\ pc = "css"
  /\ \/ /\ Len(style.cells) < stat.size
        /\ pc' = "shrunk"  \* safe_read fails
        /\ UNCHANGED css
     \/ /\ Len(style.cells) >= stat.size
        /\ css' = [ time  |-> Kept.time,
                   at    |-> Kept.at,
                   data  |-> css.data \/ stat.size > 0,
                   cells |-> SubSeq(style.cells, 1, stat.size) ]
        /\ pc' = "idle"
  /\ UNCHANGED <<vids, files, load, channels, stat>>

-----------------------------------------------------------------------------
(* GET /vids.html *)

load_vids ==
  /\ pc = "idle" /\ channels = <<>>
  /\ loading' = <<>> /\ section' = 1
  /\ pc' = "count"
  /\ UNCHANGED <<vids, files, want, channels, stat, css>>

Cell  == data_yt[Len(loading) + 1]
Ended == Len(loading) >= Len(data_yt)

Read_short_ignored == "eof"  \* mutant: what fread returned is not looked at

Read_short == "failed"

\* safe_read at the end of the file.
read_failed ==
  /\ pc \in {"count", "items"} /\ Ended
  /\ pc' = Read_short
  /\ UNCHANGED <<vids, files, load, channels, stat, css>>

Go_on(array_read) ==
  /\ pc' = IF ~array_read THEN "items" ELSE IF section = 4 THEN "eof" ELSE "count"
  /\ section' = IF array_read /\ section < 4 THEN section + 1 ELSE section

Empty_never(n) == FALSE  \* mutant: an item is read before the count is looked at

Empty(n) == n = 0

\* A cell that is no count of this array is taken for one.
read_count ==
  /\ pc = "count" /\ ~Ended
  /\ \E n \in IF Cell.count /\ Cell.section = section THEN {Tables[Cell.run][section]}
              ELSE 0..MaxCount :
       want' = n /\ Go_on(Empty(n))
  /\ loading' = Append(loading, Cell)
  /\ UNCHANGED <<vids, files, channels, stat, css>>

read_item ==
  /\ pc = "items" /\ ~Ended
  /\ loading' = Append(loading, Cell)
  /\ want' = want - 1
  /\ Go_on(want = 1)
  /\ UNCHANGED <<vids, files, channels, stat, css>>

eof_check ==
  /\ pc = "eof"
  /\ \/ /\ ~Ended
        /\ pc' = "failed"
        /\ UNCHANGED channels
     \/ /\ Ended
        /\ channels' = loading
        /\ pc' = "idle"
  /\ UNCHANGED <<vids, files, load, stat, css>>

Next ==
  \/ vids_open
  \/ vids_write
  \/ vids_crash
  \/ edit_open
  \/ edit_write
  \/ tick
  \/ file_stat
  \/ read_css
  \/ load_vids
  \/ read_count
  \/ read_item
  \/ read_failed
  \/ eof_check

Spec == Init /\ [][Next]_vars

-----------------------------------------------------------------------------
TypeOK ==
  /\ run \in Run
  /\ unwritten \in Seq([run : Run, section : Section, count : BOOLEAN])
  /\ crashed \in BOOLEAN
  /\ data_yt \in Seq([run : Run, section : Section, count : BOOLEAN])
  /\ clock \in 1..MaxTicks
  /\ style \in [time : 1..MaxTicks, edits : 0..MaxEdits, cells : Seq(0..MaxEdits)]
  /\ pc \in {"idle", "css", "count", "items", "eof", "failed", "shrunk"}
  /\ loading \in Seq([run : Run, section : Section, count : BOOLEAN])
  /\ section \in Section /\ want \in Nat
  /\ channels \in Seq([run : Run, section : Section, count : BOOLEAN])
  /\ stat \in [time : 0..MaxTicks, at : 0..MaxTicks, size : Nat]
  /\ css \in [time : 0..MaxTicks, at : 0..MaxTicks, data : BOOLEAN, cells : Seq(0..MaxEdits)]

(* What channels_load accepted is a whole table, just as one run of vids.c *)
(* wrote it; a file that a run left unfinished is never taken for one.     *)
LoadsWholeTable == channels # <<>> => \E r \in Run : channels = channels_write(r)

(* The style sheet a request is answered with from the cache is the one in *)
(* the file, although the file can change between the stat and the read:   *)
(* when the kept modification time is the file's, so is the content.  This *)
(* needs the stat to have come in a later tick than the write that the     *)
(* time is of; a write that follows the stat in the tick of one before it  *)
(* goes unnoticed.                                                         *)
CssNotStale ==
  css.data /\ css.time = style.time /\ css.at > css.time => css.cells = style.cells

(* safe_read and eof_check do not fail on a data.yt that no run of vids.c  *)
(* left unfinished.                                                        *)
ReadsWholeFile == pc = "failed" => crashed

=============================================================================
