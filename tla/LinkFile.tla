------------------------------ MODULE LinkFile ------------------------------
(***************************************************************************)
(* load_channel_file of vids.c: the links of the feed file are separated   *)
(* by white space and read through a buffer of BufferSize characters.  A   *)
(* link that the end of the buffer cuts is moved to the buffer's start,    *)
(* and the next fread continues after it.                                  *)
(*                                                                         *)
(* `pos` and `start` keep their C values; buffer[k] is position k + 1, and *)
(* `buffer` is the array up to `edge`, or up to `pos` before fread.        *)
(***************************************************************************)
EXTENDS Naturals, Sequences, SequencesExt

CONSTANTS
  Letter,      \* characters that are no white space
  Space,
  BufferSize,  \* sizeof(buffer)
  Files        \* the contents the file may have

ASSUME LinkFileAssumption ==
  /\ Space \notin Letter
  /\ BufferSize \in Nat \ {0}
  /\ Files \subseteq Seq(Letter \cup {Space})

VARIABLES
  content,  \* the whole file; it does not change
  file,     \* what fread has not returned yet
  buffer,
  pos,
  start,    \* where the part to move begins; an old value when nothing is cut
  full,     \* read == to_read
  updates,  \* the links update_channel was called with, in order
  pc        \* "read", "scan" or "done"

vars == <<content, file, buffer, pos, start, full, updates, pc>>

edge == Len(buffer)

Init ==
  /\ content \in Files
  /\ file = content
  /\ buffer = <<>>
  /\ pos = 0
  /\ start = 0
  /\ full = TRUE
  /\ updates = <<>>
  /\ pc = "read"

To_read_all == BufferSize  \* mutant: the part moved to the start is not counted

To_read == BufferSize - pos

Filled_buffer(read, to_read) ==  \* mutant: compared with the buffer's size
  read = BufferSize

Filled_at_most(read, to_read) ==  \* mutant: a comparison that always holds
  read <= to_read

Filled(read, to_read) == read = to_read

\* A short count means the end of the file: it is a regular one.
fread ==
  LET read == Min({To_read, Len(file)})
  IN  /\ pc = "read"
      /\ buffer' = buffer \o SubSeq(file, 1, read)
      /\ file' = SubSeq(file, read + 1, Len(file))
      /\ full' = Filled(read, To_read)
      /\ pos' = 0
      /\ pc' = "scan"
      /\ UNCHANGED <<content, start, updates>>

\* C indices at or after `from`; edge when there is none.
First_space(from)  == Min({k \in from..edge - 1 : buffer[k + 1] = Space} \cup {edge})
First_letter(from) == Min({k \in from..edge - 1 : buffer[k + 1] # Space} \cup {edge})

Begin == First_letter(pos)
Ended == First_space(Begin)

scan_link ==
  /\ pc = "scan"
  /\ Begin < edge /\ Ended < edge
  /\ updates' = Append(updates, SubSeq(buffer, Begin + 1, Ended))
  /\ pos' = Ended + 1
  /\ start' = Ended + 1
  /\ UNCHANGED <<content, file, buffer, full, pc>>

Cut_unset == \* mutant: `start` is not set when a link is cut
  start

\* The link that the end of the buffer cuts, if there is one.
Cut == IF Begin < edge THEN Begin ELSE start

(* The buffer holds no whole link any more: the rest moves to its start.   *)
scan_end ==
  /\ pc = "scan"
  /\ Begin = edge \/ Ended = edge
  /\ buffer' = SubSeq(buffer, Cut + 1, edge)
  /\ pos' = Len(buffer')
  /\ start' = Max({Cut, edge})
  /\ pc' = IF full THEN "read" ELSE "done"
  /\ UNCHANGED <<content, file, full, updates>>

-----------------------------------------------------------------------------
(* The links of a file by their definition: the runs of letters that white *)
(* space or the start of the file precedes, and white space follows.       *)
IsLink(text, b, e) ==
  /\ \A k \in b..e : text[k] # Space
  /\ b = 1 \/ text[b - 1] = Space
  /\ e < Len(text) /\ text[e + 1] = Space

Places(text) ==
  {r \in (1..Len(text)) \X (1..Len(text)) : r[1] <= r[2] /\ IsLink(text, r[1], r[2])}

Up_to(text, d) == {r \in Places(text) : r[1] <= d}

\* The link that is the n-th to begin.
Place(text, n) == CHOOSE r \in Places(text) : Cardinality(Up_to(text, r[1])) = n

Links(text) ==
  [ n \in 1..Cardinality(Places(text)) |->
      LET r == Place(text, n) IN SubSeq(text, r[1], r[2]) ]

\* No run of letters, the last one included, fills the buffer.
Fits(text) ==
  \A b \in 1..Len(text) :
    b + BufferSize - 1 <= Len(text) => \E k \in b..b + BufferSize - 1 : text[k] = Space

TypeOK ==
  /\ content \in Files
  /\ file \in Seq(Letter \cup {Space})
  /\ buffer \in Seq(Letter \cup {Space}) /\ edge <= BufferSize
  /\ pos \in 0..BufferSize
  /\ start \in 0..BufferSize
  /\ full \in BOOLEAN
  /\ updates \in Seq(Seq(Letter))
  /\ pc \in {"read", "scan", "done"}

(* However the links fall on the ends of the buffer, the channels updated  *)
(* so far are the first links of the file: none is cut in two, joined with *)
(* the next one, skipped or repeated.                                      *)
UpdatesAreLinks == IsPrefix(updates, Links(content))

(* When load_channel_file returns, it has updated every link that white    *)
(* space follows.  A last link without one is not updated.                 *)
AllUpdated == pc = "done" => updates = Links(content)

(* It returns, unless a link fills the buffer: then fread has no room      *)
(* left, and the loop does not end.                                        *)
Returns == Fits(content) ~> pc = "done"

=============================================================================
