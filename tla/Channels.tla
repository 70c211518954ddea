------------------------------ MODULE Channels ------------------------------
(***************************************************************************)
(* The in-memory video table of vid_format.h, as vids.c fills it: authors, *)
(* entries grouped by author, and one text arena every field points into.  *)
(*                                                                         *)
(* `entries` is one flat array.  `offsets` delimits it: the entries of the *)
(* author with C index a are entries[offsets[a]] up to but excluding       *)
(* entries[offsets[a + 1]], so there is one offset more than there are     *)
(* authors.  Authors, offsets and entries are TLA+ sequences, so C index k *)
(* is position k + 1; the NUMBERS kept in `offsets` are the C ones.        *)
(*                                                                         *)
(* A string view (sv_t) is the text it spans, or Null for {0}, the view of *)
(* a field the feed did not contain.  A relative view (rsv_t) is a record  *)
(* of two offsets into the arena.                                          *)
(*                                                                         *)
(* Allocation failure, which ends the program, is left out.  Of the six    *)
(* fields of an entry three are kept: the copying loop treats all alike.   *)
(***************************************************************************)
EXTENDS Naturals, Sequences

CONSTANTS
  Char,            \* the characters of a text
  Null,            \* the string view {0}
  AuthorAbs,       \* the authors (author_abs_t) feeds can describe
  EntryAbs,        \* the entries (entry_abs_t) feeds can contain
  AuthorCapacity,  \* the argument of channels_create
  MaxAuthors,      \* bound of the model: authors stored
  MaxEntries       \* bound of the model: entries stored

Sv  == Seq(Char) \cup {Null}
Rsv == [begin : Nat, end : Nat]

ASSUME NullAssumption == Null \notin Seq(Char)

(* parse() adds an author only when author_is_valid holds. *)
ASSUME AuthorAssumption ==
  AuthorAbs \subseteq [uri : Seq(Char) \ {<<>>}, name : Seq(Char) \ {<<>>},
                       published : Seq(Char) \ {<<>>}]

ASSUME EntryAssumption ==
  EntryAbs \subseteq [id : Sv, title : Sv, description : Sv]

ASSUME BoundAssumption ==
  AuthorCapacity \in Nat /\ MaxAuthors \in Nat /\ MaxEntries \in Nat

VARIABLE channels

-----------------------------------------------------------------------------
(* utils.h *)

(* arena_append returns before it touches the arena when the view is {0}. *)
arena_append(text, sv) == IF sv = Null THEN text ELSE text \o sv

(* For a view {0} arena_append returns 0 while `end` is still the size of  *)
(* the arena: the stored field then spans everything stored before it.     *)
(* C leaves the order of the two initialisers (utils.h:245) open: this is  *)
(* that of the compilers in use, `begin` with its call first; rsv_of_early *)
(* is the other order, which ImplementsList does not survive.              *)
rsv_of_swapped(text, sv) ==  \* mutant: the two initialisers are mixed up
  [begin |-> Len(arena_append(text, sv)), end |-> Len(text)]

rsv_of_early(text, sv) ==    \* mutant: `end` is evaluated before the append
  [begin |-> IF sv = Null THEN 0 ELSE Len(text), end |-> Len(text)]

rsv_of_behind(text, sv) ==   \* mutant: `begin` is counted back from `end`
  [begin |-> Len(text) - Len(arena_append(<<>>, sv)),  \* before the append
   end   |-> Len(arena_append(text, sv))]

rsv_of(text, sv) ==
  [ begin |-> IF sv = Null THEN 0 ELSE Len(text),
    end   |-> Len(arena_append(text, sv)) ]

rsv_get(text, rsv) == SubSeq(text, rsv.begin + 1, rsv.end)

(* The capacity of the arena after the text has grown to `len`. *)
arena_grown(capacity, len) ==
  IF len <= capacity      THEN capacity
  ELSE IF capacity * 2 > len THEN capacity * 2
  ELSE len * 2

(* The capacity after one safe_push onto an array of `size` elements. *)
pushed_late(size, capacity) ==  \* mutant: grows one element too late
  IF size <= capacity THEN capacity ELSE capacity * 2

pushed(size, capacity) ==
  IF size # capacity THEN capacity
  ELSE IF capacity = 0 THEN 1
  ELSE capacity * 2

-----------------------------------------------------------------------------
(* vid_format.h *)

channels_create ==
  [ authors |-> <<>>,
    offsets |-> <<0>>,
    entries |-> <<>>,
    text    |-> <<>>,
    capacity |-> [authors |-> AuthorCapacity, offsets |-> AuthorCapacity + 1,
                  entries |-> 0, text |-> 0] ]

(* C returns -1 for an unknown author, here 0. *)
channels_find_author(ch, uri) ==
  LET same == {i \in 1..Len(ch.authors) : rsv_get(ch.text, ch.authors[i].uri) = uri}
  IN  IF same = {} THEN 0 ELSE CHOOSE i \in same : \A j \in same : i <= j

(* The arena's capacity follows its size field by field; only the last     *)
(* growth shows when the earlier ones left enough room.                    *)
channels_add_author(ch, abs) ==
  LET t1 == arena_append(ch.text, abs.uri)
      t2 == arena_append(t1, abs.name)
      t3 == arena_append(t2, abs.published)
      author == [ uri       |-> rsv_of(ch.text, abs.uri),
                  name      |-> rsv_of(t1, abs.name),
                  published |-> rsv_of(t2, abs.published) ]
      grown == arena_grown(arena_grown(arena_grown(ch.capacity.text,
                 Len(t1)), Len(t2)), Len(t3))
  IN [ authors  |-> Append(ch.authors, author),
       offsets  |-> Append(ch.offsets, ch.offsets[Len(ch.offsets)]),
       entries  |-> ch.entries,
       text     |-> t3,
       capacity |-> [ authors |-> pushed(Len(ch.authors), ch.capacity.authors),
                      offsets |-> pushed(Len(ch.offsets), ch.capacity.offsets),
                      entries |-> ch.capacity.entries,
                      text    |-> grown ] ]

(* `s` with `e` put in front of its element `i`: what the loop that hands  *)
(* each entry on to the next slot, and the push of the last one, amount to.*)
Shifted(s, i, e) ==
  [ k \in 1..Len(s) + 1 |-> IF k < i THEN s[k] ELSE IF k = i THEN e ELSE s[k - 1] ]

Raised_next(offsets, a) ==  \* mutant: the offsets of later authors stay
  [offsets EXCEPT ![a + 1] = @ + 1]

(* One more entry for author `a`: every later run starts one further on. *)
Raised(offsets, a) ==
  [k \in 1..Len(offsets) |-> IF k > a THEN offsets[k] + 1 ELSE offsets[k]]

(* Adds an entry to the author at position `a` of `authors`. *)
channels_add_entry(ch, abs, a) ==
  LET t1 == arena_append(ch.text, abs.id)
      t2 == arena_append(t1, abs.title)
      t3 == arena_append(t2, abs.description)
      curr == [ id          |-> rsv_of(ch.text, abs.id),
                title       |-> rsv_of(t1, abs.title),
                description |-> rsv_of(t2, abs.description) ]
      grown == arena_grown(arena_grown(arena_grown(ch.capacity.text,
                 Len(t1)), Len(t2)), Len(t3))
      index == ch.offsets[a + 1]
  IN [ authors  |-> ch.authors,
       offsets  |-> Raised(ch.offsets, a),
       entries  |-> Shifted(ch.entries, index + 1, curr),
       text     |-> t3,
       capacity |-> [ authors |-> ch.capacity.authors,
                      offsets |-> ch.capacity.offsets,
                      entries |-> pushed(Len(ch.entries), ch.capacity.entries),
                      text    |-> grown ] ]

-----------------------------------------------------------------------------
(* The calls parse() makes: an author is added when the table has no author*)
(* with its uri; an entry is added to any author of the table.             *)

NewAuthor(abs) ==
  /\ Len(channels.authors) < MaxAuthors
  /\ channels_find_author(channels, abs.uri) = 0
  /\ channels' = channels_add_author(channels, abs)

NewEntry(abs, a) ==
  /\ Len(channels.entries) < MaxEntries
  /\ channels' = channels_add_entry(channels, abs, a)

Init == channels = channels_create

Next ==
  \/ \E abs \in AuthorAbs : NewAuthor(abs)
  \/ \E abs \in EntryAbs, a \in 1..Len(channels.authors) : NewEntry(abs, a)

Spec == Init /\ [][Next]_channels

-----------------------------------------------------------------------------
(* Properties *)

(* The table is a channels_t: every element has the fields of its type,    *)
(* and no size_t of it (offset, view, capacity) has wrapped below zero.    *)
TypeOK ==
  channels \in [ authors  : Seq([uri : Rsv, name : Rsv, published : Rsv]),
                 offsets  : Seq(Nat),
                 entries  : Seq([id : Rsv, title : Rsv, description : Rsv]),
                 text     : Seq(Char),
                 capacity : [authors : Nat, offsets : Nat, entries : Nat, text : Nat] ]

(* `offsets` cuts `entries` into one contiguous, possibly empty, run per   *)
(* author: it starts at 0, never decreases and ends at entry_count.  This  *)
(* is what the two index loops of channels_add_entry have to keep.         *)
OffsetsDelimitEntries ==
  /\ Len(channels.offsets) = Len(channels.authors) + 1
  /\ channels.offsets[1] = 0
  /\ \A i, j \in 1..Len(channels.offsets) :
       i <= j => channels.offsets[i] <= channels.offsets[j]
  /\ channels.offsets[Len(channels.offsets)] = Len(channels.entries)

InText(rsv, text) == rsv.begin <= rsv.end /\ rsv.end <= Len(text)

AuthorInText(author, text) ==
  InText(author.uri, text) /\ InText(author.name, text) /\ InText(author.published, text)

EntryInText(entry, text) ==
  InText(entry.id, text) /\ InText(entry.title, text) /\ InText(entry.description, text)

(* Every relative view stored in the table lies inside the arena, so that  *)
(* rsv_get never spans text that does not exist.                           *)
RsvInText ==
  /\ \A i \in 1..Len(channels.authors) : AuthorInText(channels.authors[i], channels.text)
  /\ \A k \in 1..Len(channels.entries) : EntryInText(channels.entries[k], channels.text)

(* No array holds more elements than were allocated for it.  safe_push     *)
(* grows an array only when size and capacity are EQUAL, so a size that    *)
(* ever got past its capacity would be written out of bounds for good.     *)
WithinCapacity ==
  /\ Len(channels.authors) <= channels.capacity.authors
  /\ Len(channels.offsets) <= channels.capacity.offsets
  /\ Len(channels.entries) <= channels.capacity.entries
  /\ Len(channels.text)    <= channels.capacity.text

(* What a reader of the table sees: the loop of format_test.c over authors,*)
(* offsets and entries, and rsv_get on every field.                        *)
ReadAuthor(ch, i) ==
  [ uri       |-> rsv_get(ch.text, ch.authors[i].uri),
    name      |-> rsv_get(ch.text, ch.authors[i].name),
    published |-> rsv_get(ch.text, ch.authors[i].published) ]

ReadEntry(ch, k) ==
  [ id          |-> rsv_get(ch.text, ch.entries[k].id),
    title       |-> rsv_get(ch.text, ch.entries[k].title),
    description |-> rsv_get(ch.text, ch.entries[k].description) ]

ReadRun(ch, i) ==
  [ k \in 1..(ch.offsets[i + 1] - ch.offsets[i]) |-> ReadEntry(ch, ch.offsets[i] + k) ]

ReadList(ch) ==
  [ i \in 1..Len(ch.authors) |-> [author |-> ReadAuthor(ch, i), entries |-> ReadRun(ch, i)] ]

List == INSTANCE ChannelList WITH list <- ReadList(channels)

(* The flat arrays, the offsets and the arena together implement the list: *)
(* inserting an entry in the middle of `entries` shifts later authors' runs*)
(* without losing, reordering or re-attributing one, and growing the text  *)
(* changes nothing already stored.                                         *)
ImplementsList == List!Spec

=============================================================================
