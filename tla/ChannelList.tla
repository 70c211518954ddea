---------------------------- MODULE ChannelList ----------------------------
(***************************************************************************)
(* What the video table promises its users (the page generator of the      *)
(* server, the dump of format_test.c): an ordered list of authors, each    *)
(* with the entries stored for it, in the order they were stored.          *)
(* Nothing is ever moved to another author, reordered, changed or dropped. *)
(***************************************************************************)
EXTENDS Naturals, Sequences

CONSTANTS AuthorAbs, EntryAbs, Null

VARIABLE list  \* a sequence of [author, entries]

Init == list = <<>>

NewAuthor(author) ==
  /\ \A i \in 1..Len(list) : list[i].author.uri # author.uri
  /\ list' = Append(list, [author |-> author, entries |-> <<>>])

(* A field the feed did not contain (Null) may read back as anything: the  *)
(* table has no way to mark a field as missing.                            *)
Agrees(stored, entry) ==
  \A f \in DOMAIN entry : entry[f] # Null => stored[f] = entry[f]

NewEntry(entry, i) ==
  LET new == list'[i].entries
      n   == Len(list[i].entries)
  IN  /\ list' = [list EXCEPT ![i].entries = new]
      /\ Len(new) = n + 1
      /\ \A k \in 1..n : new[k] = list[i].entries[k]
      /\ Agrees(new[n + 1], entry)

Next ==
  \/ \E author \in AuthorAbs : NewAuthor(author)
  \/ \E entry \in EntryAbs, i \in 1..Len(list) : NewEntry(entry, i)

Spec == Init /\ [][Next]_list

=============================================================================
